---- MODULE Spec2Model ----
(***************************************************************************)
(* A model of the bignums arithmetic kernel: BigUInt (little-endian limb   *)
(* vectors), BigInt (sign + magnitude), Rational, BigFloat (m * 2^e) and   *)
(* Real (precision -> BigFloat).  Every magnitude is a sequence of limbs,  *)
(* index 1 holding the least significant limb, and every operation is      *)
(* written limb by limb as the Rust code computes it.  The limb is         *)
(* LimbBits wide instead of 64 so that whole input ranges can be           *)
(* enumerated; everything that the code derives from u64::BITS or u64::MAX *)
(* is derived from LimbBits here.                                          *)
(***************************************************************************)
EXTENDS Integers, Sequences, FiniteSets, TLC

VARIABLES
    pc,     \* "ready": operands loaded; "done": the call returned; "panic": it
            \* panicked; "hang": it did not return
    op,     \* the operation that produced `out`
    build,  \* "debug" (debug_assert! and overflow checks on) or "release"
    arg,    \* the operands of the call
    out,    \* what the call returned or left behind
    step    \* how many operations have been applied

vars == <<pc, op, build, arg, out, step>>

-----------------------------------------------------------------------------
(* Bounds of the model *)

HalfBits == 1
MaxLimbs == 3
MaxLenU == 2
MaxOps == 2
MaxPow == 3
MaxStr == 2
ExpBits == 7
GridBits == 4
MaxReal == 8
MaxPrec == 1
ExpWindow == 3
MaxIter == 4

-----------------------------------------------------------------------------
(* Limbs *)

LimbBits == 2 * HalfBits

RECURSIVE Pow2(_)
Pow2(k) == IF k <= 0 THEN 1 ELSE 2 * Pow2(k - 1)

Base == Pow2(LimbBits)

Limbs == 0 .. (Base - 1)

Builds == {"debug", "release"}

\* u64::leading_zeros
RECURSIVE leading_zeros(_)
leading_zeros(x) == IF x >= Base \div 2 THEN 0 ELSE 1 + leading_zeros(2 * x + 1)

\* u64::trailing_zeros (LimbBits for 0)
RECURSIVE limb_trailing_zeros(_)
limb_trailing_zeros(x) ==
    IF x = 0 THEN LimbBits
    ELSE IF x % 2 = 1 THEN 0 ELSE 1 + limb_trailing_zeros(x \div 2)

\* The number a limb vector denotes (used by the properties, not by the code).
RECURSIVE Val(_)
Val(data) == IF data = <<>> THEN 0 ELSE data[1] + Base * Val(Tail(data))

\* The canonical form of a magnitude: no most-significant zero limb.
Canonical(data) == data = <<>> \/ data[Len(data)] # 0

RECURSIVE Zeros(_)
Zeros(k) == IF k <= 0 THEN <<>> ELSE <<0>> \o Zeros(k - 1)

-----------------------------------------------------------------------------
(* util.rs *)

get_or_default(data, i) == IF i <= Len(data) THEN data[i] ELSE 0

set_or_insert(data, i, val) ==
    IF i <= Len(data) THEN [data EXCEPT ![i] = val]
    ELSE data \o Zeros(i - Len(data) - 1) \o <<val>>

carrying_mul(lhs, rhs) ==
    LET half == Pow2(HalfBits)
        a == (lhs % half) * (rhs % half)
        b == (lhs \div half) * (rhs % half)
        c == (lhs % half) * (rhs \div half)
        d == (lhs \div half) * (rhs \div half)
        bs == (b * half) % Base
        cs == (c * half) % Base
        lo1 == (a + bs) % Base
        carry1 == (a + bs) \div Base
        lo2 == (lo1 + cs) % Base
        carry2 == (lo1 + cs) \div Base
    IN  [lo |-> lo2, hi |-> d + (b \div half) + (c \div half) + carry1 + carry2]

-----------------------------------------------------------------------------
(* BigUInt *)

RECURSIVE truncate_leading_zeros(_)
truncate_leading_zeros(data) ==
    IF Len(data) > 0 /\ data[Len(data)] = 0
    THEN truncate_leading_zeros(SubSeq(data, 1, Len(data) - 1))
    ELSE data

from_vec_le(data) == truncate_leading_zeros(data)

\* SetVal<u64>
from_u64(val) == IF val # 0 THEN <<val>> ELSE <<>>

RECURSIVE cmp_rev(_, _, _)
cmp_rev(a, b, i) ==
    IF i = 0 THEN 0
    ELSE IF a[i] < b[i] THEN -1
    ELSE IF a[i] > b[i] THEN 1
    ELSE cmp_rev(a, b, i - 1)

\* Ord for BigUInt: lengths first, then the limbs from the top.
biguint_cmp(a, b) ==
    IF Len(a) < Len(b) THEN -1
    ELSE IF Len(a) > Len(b) THEN 1
    ELSE cmp_rev(a, b, Len(a))

RECURSIVE add_loop(_, _, _, _, _)
add_loop(self, rhs, i, len, carry) ==
    IF i > len
    THEN IF carry # 0 THEN set_or_insert(self, len + 1, carry) ELSE self
    ELSE LET a == get_or_default(self, i)
             b == get_or_default(rhs, i)
             sum1 == (a + b) % Base
             carry1 == (a + b) \div Base
             sum2 == (sum1 + carry) % Base
             carry2 == (sum1 + carry) \div Base
         IN  add_loop(set_or_insert(self, i, sum2), rhs, i + 1, len, carry1 + carry2)

add_assign(self, rhs) ==
    add_loop(self, rhs, 1, IF Len(self) >= Len(rhs) THEN Len(self) ELSE Len(rhs), 0)

\* The borrow loop shared by checked_sub_assign (a = self) and
\* checked_sub_from_assign (a = lhs); the differences are written into self.
RECURSIVE sub_loop(_, _, _, _, _, _)
sub_loop(self, a, b, i, len, borrow) ==
    IF i > len
    THEN [data |-> truncate_leading_zeros(self), ok |-> borrow = 0]
    ELSE LET x == a[i]
             y == get_or_default(b, i)
             diff1 == (x - y) % Base
             borrow1 == IF x < y THEN 1 ELSE 0
             diff2 == (diff1 - borrow) % Base
             borrow2 == IF diff1 < borrow THEN 1 ELSE 0
         IN  sub_loop(set_or_insert(self, i, diff2), a, b, i + 1, len, borrow1 + borrow2)

\* self - rhs into self
checked_sub_assign(self, rhs) ==
    IF Len(self) >= Len(rhs)
    THEN sub_loop(self, self, rhs, 1, Len(self), 0)
    ELSE [data |-> self, ok |-> FALSE]

\* lhs - self into self
checked_sub_from_assign(self, lhs) ==
    IF Len(lhs) >= Len(self)
    THEN sub_loop(self, lhs, self, 1, Len(lhs), 0)
    ELSE [data |-> self, ok |-> FALSE]

\* SubAssign<&BigUInt>: panics when the difference would be negative.
sub_assign(self, rhs) ==
    LET s == checked_sub_assign(self, rhs)
    IN  [data |-> s.data, panic |-> ~s.ok]

RECURSIVE mul_inner(_, _, _, _, _, _)
mul_inner(self, a_i, i, rhs, j, carry) ==
    IF j > Len(rhs)
    THEN [self EXCEPT ![i + Len(rhs)] = carry]
    ELSE LET p == carrying_mul(a_i, rhs[j])
             sum1 == (p.lo + carry) % Base
             carry1 == (p.lo + carry) \div Base
             sum2 == (self[i + j - 1] + sum1) % Base
             carry2 == (self[i + j - 1] + sum1) \div Base
         IN  mul_inner([self EXCEPT ![i + j - 1] = sum2], a_i, i, rhs, j + 1,
                       p.hi + carry1 + carry2)

RECURSIVE mul_outer(_, _, _, _)
mul_outer(self, lhs, rhs, i) ==
    IF i > Len(lhs) THEN self
    ELSE mul_outer(mul_inner(self, lhs[i], i, rhs, 1, 0), lhs, rhs, i + 1)

mul_to(lhs, rhs) ==
    truncate_leading_zeros(mul_outer(Zeros(Len(lhs) + Len(rhs)), lhs, rhs, 1))

shl_digits(self, digits) == IF self = <<>> THEN self ELSE Zeros(digits) \o self

shr_digits(self, digits) ==
    IF digits >= Len(self) THEN <<>> ELSE SubSeq(self, digits + 1, Len(self))

RECURSIVE shl_bits(_, _, _, _)
shl_bits(self, i, rem, carry) ==
    IF i > Len(self)
    THEN IF carry # 0 THEN Append(self, carry) ELSE self
    ELSE LET x == self[i]
         IN  shl_bits([self EXCEPT ![i] = ((x * Pow2(rem)) % Base) + carry],
                      i + 1, rem, x \div Pow2(LimbBits - rem))

\* ShlAssign<$t> for BigUInt
shl_assign(self, rhs) ==
    IF self = <<>> THEN self
    ELSE LET mult64 == rhs \div LimbBits
             rem == rhs % LimbBits
             shifted == shl_digits(self, mult64)
         IN  IF rem # 0 THEN shl_bits(shifted, mult64 + 1, rem, 0) ELSE shifted

RECURSIVE shr_bits(_, _, _, _)
shr_bits(self, i, rem, carry) ==
    IF i = 0
    THEN IF Len(self) > 0 /\ self[Len(self)] = 0
         THEN SubSeq(self, 1, Len(self) - 1)
         ELSE self
    ELSE LET x == self[i]
         IN  shr_bits([self EXCEPT ![i] = (x \div Pow2(rem)) + carry],
                      i - 1, rem, (x * Pow2(LimbBits - rem)) % Base)

\* ShrAssign<$t> for BigUInt
shr_assign(self, rhs) ==
    LET mult64 == rhs \div LimbBits
        rem == rhs % LimbBits
        shifted == shr_digits(self, mult64)
    IN  IF rem # 0 THEN shr_bits(shifted, Len(shifted), rem, 0) ELSE shifted

-----------------------------------------------------------------------------
(* BigUInt division: Knuth's Algorithm D *)

\* Divides a 2-digit numerator by a 1-digit denominator.
div_2_digits(n_lo, n_hi, d, dbg) ==
    LET q_wide == (n_lo + Base * n_hi) \div d
    IN  [q |-> q_wide % Base, panic |-> dbg /\ q_wide > Base - 1]

\* The correction loop of correct_q; s is r as the last `*r -= d` left it.
RECURSIVE correct_loop(_, _, _, _, _, _)
correct_loop(q_est, s, n, d, k, dbg) ==
    IF s.panic THEN [q |-> q_est, r |-> s.data, panic |-> TRUE]
    ELSE IF k = 0 \/ biguint_cmp(s.data, n) <= 0
    THEN [q |-> q_est, r |-> s.data, panic |-> FALSE]
    ELSE IF dbg /\ q_est = 0 THEN [q |-> q_est, r |-> s.data, panic |-> TRUE]
    ELSE correct_loop((q_est - 1) % Base, sub_assign(s.data, d), n, d, k - 1, dbg)

\* The end of correct_q: r := n - r, the outcome of the subtraction ignored.
correct_q_remainder(c, n) ==
    IF c.panic THEN c
    ELSE [q |-> c.q, r |-> checked_sub_from_assign(c.r, n).data, panic |-> FALSE]

correct_q(q_est, n, d, dbg) ==
    correct_q_remainder(
        correct_loop(q_est, [data |-> mul_to(d, from_u64(q_est)), panic |-> FALSE],
                     n, d, 2, dbg),
        n)

\* div_n_plus_1_digits_normalized after its estimate e of the quotient digit.
div_n_plus_1_digits_corrected(e, n, d, dbg) ==
    IF e.panic THEN [q |-> 0, r |-> <<>>, panic |-> TRUE]
    ELSE correct_q(e.q, n, d, dbg)

\* Divides an (n+1)-digit numerator by an n-digit denominator.
div_n_plus_1_digits_normalized(n, d, dbg) ==
    IF (dbg /\ (Len(n) # Len(d) + 1 \/ d[Len(d)] < Base \div 2)) \/ Len(n) < 2
    THEN [q |-> 0, r |-> <<>>, panic |-> TRUE]
    ELSE div_n_plus_1_digits_corrected(
             div_2_digits(n[Len(n) - 1], n[Len(n)], d[Len(d)], dbg), n, d, dbg)

RECURSIVE Reverse(_)
Reverse(s) == IF s = <<>> THEN <<>> ELSE Append(Reverse(Tail(s)), Head(s))

\* n_inter padded with a zero when it is as long as d.
pad_n_inter(n_inter, d) ==
    IF Len(n_inter) = Len(d) THEN Append(n_inter, 0) ELSE n_inter

\* The loop of div_rem_to_normalized: k counts the digits of n still to bring
\* down, q holds the quotient digits most significant first.  div_norm_step
\* is the rest of an iteration once the digit s.q and the remainder s.r are
\* known; with k = 0 it is the division after the loop.
RECURSIVE div_norm_loop(_, _, _, _, _, _)
RECURSIVE div_norm_step(_, _, _, _, _, _)
div_norm_loop(n, d, k, n_inter, q, dbg) ==
    IF k > 0 /\ Len(n_inter) < Len(d)
    THEN div_norm_loop(n, d, k - 1, <<n[k]>> \o n_inter, Append(q, 0), dbg)
    ELSE div_norm_step(n, d, k, q,
                       div_n_plus_1_digits_normalized(pad_n_inter(n_inter, d), d, dbg),
                       dbg)

div_norm_step(n, d, k, q, s, dbg) ==
    IF s.panic THEN [q |-> q, r |-> s.r, panic |-> TRUE]
    ELSE IF k = 0
    THEN [q |-> truncate_leading_zeros(Reverse(Append(q, s.q))),
          r |-> s.r, panic |-> FALSE]
    ELSE div_norm_loop(n, d, k - 1, <<n[k]>> \o s.r, Append(q, s.q), dbg)

div_rem_to_normalized(n, d, dbg) ==
    div_norm_loop(n, d, Len(n) - Len(d), shr_digits(n, Len(n) - Len(d)), <<>>, dbg)

\* The end of div_rem_to_unchecked: r is shifted back.
div_rem_shift_back(s, normalization_bitshift) ==
    IF s.panic THEN s
    ELSE [q |-> s.q, r |-> shr_assign(s.r, normalization_bitshift), panic |-> FALSE]

div_rem_to_shifted(n, d, normalization_bitshift, dbg) ==
    div_rem_shift_back(
        div_rem_to_normalized(shl_assign(n, normalization_bitshift),
                              shl_assign(d, normalization_bitshift), dbg),
        normalization_bitshift)

div_rem_to_unchecked(n, d, dbg) ==
    div_rem_to_shifted(n, d, leading_zeros(d[Len(d)]), dbg)

\* DivRem for &mut BigUInt
div_rem_to(n, d, dbg) ==
    IF d = <<>> THEN [q |-> <<>>, r |-> <<>>, panic |-> TRUE]
    ELSE IF biguint_cmp(n, d) < 0 THEN [q |-> <<>>, r |-> n, panic |-> FALSE]
    ELSE IF d = <<1>> THEN [q |-> n, r |-> <<>>, panic |-> FALSE]
    ELSE div_rem_to_unchecked(n, d, dbg)

-----------------------------------------------------------------------------
(* BigUInt: bitwise operators, pow, gcd, parsing *)

RECURSIVE limb_and(_, _, _)
limb_and(x, y, k) ==
    IF k = 0 THEN 0
    ELSE ((x % 2) * (y % 2)) + 2 * limb_and(x \div 2, y \div 2, k - 1)

RECURSIVE limb_xor(_, _, _)
limb_xor(x, y, k) ==
    IF k = 0 THEN 0
    ELSE (((x % 2) + (y % 2)) % 2) + 2 * limb_xor(x \div 2, y \div 2, k - 1)

limb_or(x, y) == x + y - limb_and(x, y, LimbBits)

Min(i, j) == IF i <= j THEN i ELSE j

Abs(i) == IF i < 0 THEN 0 - i ELSE i

Max(i, j) == IF i >= j THEN i ELSE j

\* BitAndAssign<&BigUInt>
bitand_assign(self, rhs) ==
    LET cut == SubSeq(self, 1, Min(Len(self), Len(rhs)))
    IN  truncate_leading_zeros([i \in 1 .. Len(cut) |-> limb_and(cut[i], rhs[i], LimbBits)])

\* BitOrAssign<&BigUInt>
bitor_assign(self, rhs) ==
    LET ext == IF Len(rhs) > Len(self) THEN self \o Zeros(Len(rhs) - Len(self)) ELSE self
    IN  [i \in 1 .. Len(ext) |-> IF i <= Len(rhs) THEN limb_or(ext[i], rhs[i]) ELSE ext[i]]

\* BitXorAssign<&BigUInt>
bitxor_assign(self, rhs) ==
    LET zipped == [i \in 1 .. Len(self) |->
                      IF i <= Len(rhs) THEN limb_xor(self[i], rhs[i], LimbBits) ELSE self[i]]
        ext == IF Len(rhs) > Len(self)
               THEN zipped \o SubSeq(rhs, Len(self) + 1, Len(rhs))
               ELSE zipped
    IN  truncate_leading_zeros(ext)

\* not_in_place without its final truncate_leading_zeros.
not_in_place_untruncated(self) == [i \in 1 .. Len(self) |-> (Base - 1) - self[i]]

not_in_place(self) ==
    truncate_leading_zeros([i \in 1 .. Len(self) |-> (Base - 1) - self[i]])

\* BigUInt::pow: res and power_of_self after the remaining iterations.
RECURSIVE pow_loop(_, _, _)
pow_loop(res, power_of_self, power) ==
    IF power = 0 THEN res
    ELSE pow_loop(IF power % 2 = 1 THEN mul_to(res, power_of_self) ELSE res,
                  mul_to(power_of_self, power_of_self), power \div 2)

pow(self, power) == pow_loop(<<1>>, self, power)

\* The loop of gcd.  Euclid's algorithm on operands of this size needs fewer
\* than `fuel` iterations; a run that uses them all is a run that the wrong
\* remainders of div_rem_to keep from ending.
RECURSIVE gcd_loop(_, _, _, _)
RECURSIVE gcd_step(_, _, _, _, _)
gcd_loop(a, b, fuel, dbg) ==
    IF b = <<>> THEN [data |-> a, panic |-> FALSE, hang |-> FALSE]
    ELSE IF fuel = 0 THEN [data |-> a, panic |-> FALSE, hang |-> TRUE]
    ELSE gcd_step(a, b, div_rem_to(a, b, dbg), fuel, dbg)

gcd_step(a, b, s, fuel, dbg) ==
    IF s.panic THEN [data |-> a, panic |-> TRUE, hang |-> FALSE]
    ELSE gcd_loop(b, s.r, fuel - 1, dbg)

gcd(self, other, dbg) ==
    gcd_loop(self, other, 2 * LimbBits * (Len(self) + Len(other)) + 2, dbg)

\* The bytes the model feeds to the parsers.
Bytes == {"0", "1", "2", "z", "+", "-", "."}

Radixes == {2, 3}

\* b'0'..=b'9', b'a'..=b'z' and b'A'..=b'Z'
DigitChars == <<"0", "1", "2", "3", "4", "5", "6", "7", "8", "9">>

LowerChars ==
    <<"a", "b", "c", "d", "e", "f", "g", "h", "i", "j", "k", "l", "m",
      "n", "o", "p", "q", "r", "s", "t", "u", "v", "w", "x", "y", "z">>

UpperChars ==
    <<"A", "B", "C", "D", "E", "F", "G", "H", "I", "J", "K", "L", "M",
      "N", "O", "P", "Q", "R", "S", "T", "U", "V", "W", "X", "Y", "Z">>

\* the position of c in the table, 0 when it is not there
IndexIn(table, c) ==
    IF \E i \in 1 .. Len(table) : table[i] = c
    THEN CHOOSE i \in 1 .. Len(table) : table[i] = c
    ELSE 0

\* the digit of the byte c, -1 for None
parse_ascii_digit(c) ==
    IF IndexIn(DigitChars, c) > 0 THEN IndexIn(DigitChars, c) - 1
    ELSE IF IndexIn(LowerChars, c) > 0 THEN IndexIn(LowerChars, c) + 9
    ELSE IF IndexIn(UpperChars, c) > 0 THEN IndexIn(UpperChars, c) + 9
    ELSE -1

\* The loop of parse_helper, from the last byte to the first.
RECURSIVE parse_loop(_, _, _, _, _)
parse_loop(src, i, radix, res, power_of_radix) ==
    IF i = 0 THEN [ok |-> TRUE, data |-> res, err |-> "none"]
    ELSE LET d == parse_ascii_digit(src[i])
         IN  IF d < 0 \/ d >= radix
             THEN [ok |-> FALSE, data |-> <<>>, err |-> "InvalidDigit"]
             ELSE parse_loop(src, i - 1, radix,
                             add_assign(res, mul_to(from_u64(d), power_of_radix)),
                             mul_to(power_of_radix, from_u64(radix)))

parse_helper(src, radix) ==
    IF src = <<>> THEN [ok |-> FALSE, data |-> <<>>, err |-> "Empty"]
    ELSE parse_loop(src, Len(src), radix, <<>>, <<1>>)

\* BigUInt::from_ascii_radix
biguint_from_ascii_radix(src, radix) ==
    IF src = <<>> THEN [ok |-> FALSE, data |-> <<>>, err |-> "Empty"]
    ELSE IF src[1] = "-" THEN [ok |-> FALSE, data |-> <<>>, err |-> "Negative"]
    ELSE IF src[1] = "+" THEN parse_helper(Tail(src), radix)
    ELSE parse_helper(src, radix)

-----------------------------------------------------------------------------
(* Inputs *)

RECURSIVE SeqsOfLen(_, _)
SeqsOfLen(S, k) ==
    IF k = 0 THEN {<<>>}
    ELSE {Append(s, x) : s \in SeqsOfLen(S, k - 1), x \in S}

SeqsUpTo(S, k) == UNION {SeqsOfLen(S, j) : j \in 0 .. k}

\* Every magnitude of at most k limbs, as from_vec_le builds it.
Magnitudes(k) == {from_vec_le(v) : v \in SeqsUpTo(Limbs, k)}

\* The limbs at the edges of the limb range.
LimbVals == {0, 1, Base \div 2, Base - 1}

EdgeMagnitudes(k) == {from_vec_le(v) : v \in SeqsUpTo(LimbVals, k)}

\* Shift amounts below, at and above whole limbs.
ShiftAmounts == 0 .. (2 * LimbBits + 1)

-----------------------------------------------------------------------------
(* div_rem on magnitudes *)

InitDiv ==
    /\ pc = "ready"
    /\ op = "none"
    /\ build \in Builds
    /\ arg \in {[n |-> n, d |-> d] : n \in Magnitudes(MaxLimbs),
                                     d \in Magnitudes(MaxLimbs) \ {<<>>}}
    /\ out = [q |-> <<>>, r |-> <<>>]
    /\ step = 0

DivRemReturn(s) ==
    /\ pc' = IF s.panic THEN "panic" ELSE "done"
    /\ out' = [q |-> s.q, r |-> s.r]
    /\ op' = "div_rem"
    /\ step' = step + 1
    /\ UNCHANGED <<build, arg>>

DivRem ==
    /\ pc = "ready"
    /\ DivRemReturn(div_rem_to(arg.n, arg.d, build = "debug"))

NextDiv == DivRem

SpecDiv == InitDiv /\ [][NextDiv]_vars

\* C1: div_rem(n, d) with d # 0 never panics and returns (q, r) with
\* q*d + r = n and 0 <= r < d, for single-limb and multi-limb divisors alike.
C1_DivRemCorrect ==
    op = "div_rem" =>
        /\ pc = "done"
        /\ Val(out.q) * Val(arg.d) + Val(out.r) = Val(arg.n)
        /\ Val(out.r) < Val(arg.d)

\* The part of C1 that the code does satisfy: single-limb divisors.
C1_SingleLimbDivisor ==
    (op = "div_rem" /\ Len(arg.d) = 1) =>
        /\ pc = "done"
        /\ Val(out.q) * Val(arg.d) + Val(out.r) = Val(arg.n)
        /\ Val(out.r) < Val(arg.d)

-----------------------------------------------------------------------------
(* Sequences of BigUInt operations on two values a and b *)

InitU ==
    /\ pc = "ready"
    /\ op = "none"
    /\ build \in Builds
    /\ arg \in {[a |-> a, b |-> b] : a \in EdgeMagnitudes(MaxLenU),
                                     b \in EdgeMagnitudes(MaxLenU)}
    /\ out = [data |-> <<>>, aux |-> <<>>]
    /\ step = 0

\* a := res, and the sequence goes on while a stays within MaxLenU limbs.
StoreU(name, res, aux) ==
    /\ op' = name
    /\ out' = [data |-> res, aux |-> aux]
    /\ arg' = [arg EXCEPT !.a = res]
    /\ pc' = IF Len(res) <= MaxLenU THEN "ready" ELSE "done"
    /\ step' = step + 1
    /\ UNCHANGED build

PanicU(name) ==
    /\ op' = name
    /\ pc' = "panic"
    /\ step' = step + 1
    /\ UNCHANGED <<build, arg, out>>

HangU(name) ==
    /\ op' = name
    /\ pc' = "hang"
    /\ step' = step + 1
    /\ UNCHANGED <<build, arg, out>>

ReadyU == pc = "ready" /\ step < MaxOps

UFromVec ==
    /\ ReadyU
    /\ \E v \in SeqsUpTo({0, Base - 1}, MaxLenU) :
           StoreU("from_vec_le", from_vec_le(v), <<>>)

UParseReturn(s) == s.ok /\ StoreU("from_ascii_radix", s.data, <<>>)

UParse ==
    /\ ReadyU
    /\ \E src \in SeqsUpTo({"0", "1", "2", "+"}, MaxStr), radix \in Radixes :
           UParseReturn(biguint_from_ascii_radix(src, radix))

UAdd == ReadyU /\ StoreU("add", add_assign(arg.a, arg.b), <<>>)

USubReturn(s) == IF s.panic THEN PanicU("sub") ELSE StoreU("sub", s.data, <<>>)

USub == ReadyU /\ USubReturn(sub_assign(arg.a, arg.b))

UMul == ReadyU /\ StoreU("mul", mul_to(arg.a, arg.b), <<>>)

UDivRemReturn(s) ==
    IF s.panic THEN PanicU("div_rem") ELSE StoreU("div_rem", s.q, s.r)

UDivRem == ReadyU /\ UDivRemReturn(div_rem_to(arg.a, arg.b, build = "debug"))

UShl == ReadyU /\ \E k \in ShiftAmounts : StoreU("shl", shl_assign(arg.a, k), <<>>)

UShr == ReadyU /\ \E k \in ShiftAmounts : StoreU("shr", shr_assign(arg.a, k), <<>>)

UBitAnd == ReadyU /\ StoreU("bitand", bitand_assign(arg.a, arg.b), <<>>)

UBitOr == ReadyU /\ StoreU("bitor", bitor_assign(arg.a, arg.b), <<>>)

UBitXor == ReadyU /\ StoreU("bitxor", bitxor_assign(arg.a, arg.b), <<>>)

UNot == ReadyU /\ StoreU("not", not_in_place(arg.a), <<>>)

UPow == ReadyU /\ \E k \in 0 .. MaxPow : StoreU("pow", pow(arg.a, k), <<>>)

UGcdReturn(s) ==
    IF s.panic THEN PanicU("gcd")
    ELSE IF s.hang THEN HangU("gcd")
    ELSE StoreU("gcd", s.data, <<>>)

UGcd == ReadyU /\ UGcdReturn(gcd(arg.a, arg.b, build = "debug"))

NextU ==
    \/ UFromVec
    \/ UParse
    \/ UAdd
    \/ USub
    \/ UMul
    \/ UDivRem
    \/ UShl
    \/ UShr
    \/ UBitAnd
    \/ UBitOr
    \/ UBitXor
    \/ UNot
    \/ UPow
    \/ UGcd

SpecU == InitU /\ [][NextU]_vars

\* C2: after any sequence of the public BigUInt operations, every value held
\* and every value returned is canonical: no most-significant zero limb, zero
\* being the empty limb vector.
C2_AlwaysCanonical ==
    /\ Canonical(arg.a)
    /\ Canonical(arg.b)
    /\ Canonical(out.data)
    /\ Canonical(out.aux)

\* A second operation whose raw result had a zero top limb: the complement of
\* a value whose top limb is all ones, still non-zero after truncation.
C2_Witness ==
    /\ op = "not"
    /\ step = MaxOps
    /\ out.data # <<>>
    /\ Len(out.data) < MaxLenU
    /\ Len(arg.b) = MaxLenU

\* ---------------------------------------------------------------------------
\* Machine integers: i64 scaled to ExpBits bits.  Plain arithmetic panics on
\* overflow in a debug build and wraps in a release build; strict_* arithmetic
\* and try_into().unwrap() panic in both.
\* ---------------------------------------------------------------------------

MaxInt == Pow2(ExpBits - 1) - 1

MinInt == 0 - Pow2(ExpBits - 1)

\* the extra bits of the reciprocal estimate and of the Newton iterations
EstimateBits == LimbBits

WorkingSlack == 16

InI64(v) == MinInt <= v /\ v <= MaxInt

wrapping(v) == ((v - MinInt) % Pow2(ExpBits)) + MinInt

i64_op(v, dbg) == [v |-> wrapping(v), panic |-> dbg /\ ~InI64(v)]

\* ---------------------------------------------------------------------------
\* BigUInt bit queries (biguint/bits.rs, biguint/exp.rs)
\* ---------------------------------------------------------------------------

RECURSIVE trailing_zeros_loop(_, _, _)
trailing_zeros_loop(data, i, res) ==
    IF i > Len(data) THEN res
    ELSE IF data[i] = 0 THEN trailing_zeros_loop(data, i + 1, res + LimbBits)
    ELSE res + limb_trailing_zeros(data[i])

trailing_zeros(data) == trailing_zeros_loop(data, 1, 0)

\* pos is a usize: a negative i64 cast to it is past every limb
bit(data, pos) ==
    IF pos < 0 \/ (pos \div LimbBits) >= Len(data) THEN FALSE
    ELSE (data[(pos \div LimbBits) + 1] \div Pow2(pos % LimbBits)) % 2 = 1

is_one(data) == data = <<1>>

\* callers pass a non-zero value (the source panics on zero)
biguint_ilog2(data) ==
    (LimbBits - leading_zeros(data[Len(data)]) - 1) + (Len(data) - 1) * LimbBits

\* the two assertions at the head of <<= for a signed amount
shl_asserts(rhs) == rhs < MaxInt /\ rhs >= 0

\* ---------------------------------------------------------------------------
\* BigInt: sign and magnitude
\* ---------------------------------------------------------------------------

BigInt(neg, mag) == [is_negative |-> neg, magnitude |-> mag]

BIGINT_ZERO == BigInt(FALSE, <<>>)

BIGINT_ONE == BigInt(FALSE, <<1>>)

BIGINT_NEG_ONE == BigInt(TRUE, <<1>>)

bigint_is_zero(v) == v.magnitude = <<>>

bigint_normalize(v) == IF v.magnitude = <<>> THEN BigInt(FALSE, <<>>) ELSE v

bigint_from(i) == IF i < 0 THEN BigInt(TRUE, from_u64(0 - i)) ELSE BigInt(FALSE, from_u64(i))

bigint_value(v) == IF v.is_negative THEN 0 - Val(v.magnitude) ELSE Val(v.magnitude)

bigint_add_unlike(self, other, ord) ==
    IF ord < 0 THEN BigInt(other.is_negative, checked_sub_from_assign(self.magnitude, other.magnitude).data)
    ELSE IF ord = 0 THEN BIGINT_ZERO
    ELSE BigInt(self.is_negative, sub_assign(self.magnitude, other.magnitude).data)

bigint_add_assign(self, other) ==
    IF self.is_negative = other.is_negative
    THEN BigInt(self.is_negative, add_assign(self.magnitude, other.magnitude))
    ELSE bigint_add_unlike(self, other, biguint_cmp(self.magnitude, other.magnitude))

bigint_neg_in_place(self) ==
    IF self.magnitude # <<>> THEN BigInt(~self.is_negative, self.magnitude) ELSE self

bigint_sub_assign(self, rhs) ==
    bigint_neg_in_place(bigint_add_assign(bigint_neg_in_place(self), rhs))

bigint_mul_to(lhs, rhs) ==
    IF bigint_is_zero(lhs) \/ bigint_is_zero(rhs) THEN BIGINT_ZERO
    ELSE BigInt(lhs.is_negative # rhs.is_negative, mul_to(lhs.magnitude, rhs.magnitude))

bigint_shl_assign(self, rhs) == BigInt(self.is_negative, shl_assign(self.magnitude, rhs))

shr_correction(magnitude, mult64, rem64) ==
    \/ \E i \in 1 .. Min(mult64, Len(magnitude)) : magnitude[i] # 0
    \/ /\ rem64 # 0
       /\ mult64 < Len(magnitude)
       /\ (magnitude[mult64 + 1] * Pow2(LimbBits - rem64)) % Base # 0

bigint_shr_assign(self, rhs) ==
    IF ~self.is_negative THEN BigInt(FALSE, shr_assign(self.magnitude, rhs))
    ELSE IF shr_correction(self.magnitude, rhs \div LimbBits, rhs % LimbBits)
    THEN BigInt(TRUE, add_assign(shr_assign(self.magnitude, rhs), <<1>>))
    ELSE BigInt(TRUE, shr_assign(self.magnitude, rhs))

bigint_div_rem_signs(self, d, s) ==
    [q |-> bigint_normalize(BigInt(self.is_negative # d.is_negative, s.q)),
     r |-> bigint_normalize(BigInt(self.is_negative, s.r)),
     panic |-> s.panic]

bigint_div_rem_to(self, d, dbg) ==
    bigint_div_rem_signs(self, d, div_rem_to(self.magnitude, d.magnitude, dbg))

div_rem_floor_adjust(d, s) ==
    IF s.panic \/ bigint_is_zero(s.r) \/ ~s.q.is_negative THEN s
    ELSE [q |-> bigint_sub_assign(s.q, bigint_from(1)),
          r |-> bigint_add_assign(s.r, d),
          panic |-> FALSE]

div_rem_floor(self, d, dbg) == div_rem_floor_adjust(d, bigint_div_rem_to(self, d, dbg))

\* ---------------------------------------------------------------------------
\* BigFloat: m * 2^e.  Operations yield [f, panic].
\* ---------------------------------------------------------------------------

BigFloat(m, e) == [m |-> m, e |-> e]

BIGFLOAT_ZERO == BigFloat(BIGINT_ZERO, 0)

Returns(f) == [f |-> f, panic |-> FALSE]

Panics(f) == [f |-> f, panic |-> TRUE]

bigfloat_is_zero(self) == bigint_is_zero(self.m)

\* normalize for a non-zero mantissa with tz trailing zero bits
normalize_by(self, tz) ==
    [f |-> BigFloat(BigInt(self.m.is_negative, shr_assign(self.m.magnitude, tz)),
                    wrapping(self.e + tz)),
     panic |-> ~InI64(self.e + tz)]

bigfloat_normalize(self) ==
    IF bigint_is_zero(self.m) THEN Returns(BigFloat(self.m, 0))
    ELSE normalize_by(self, trailing_zeros(self.m.magnitude))

from_mantissa_exponent(mantissa, exponent) == bigfloat_normalize(BigFloat(mantissa, exponent))

bigfloat_shr_assign(self, rhs) ==
    [f |-> BigFloat(self.m, wrapping(self.e - rhs)), panic |-> ~InI64(self.e - rhs)]

bigfloat_shl_assign(self, rhs) ==
    [f |-> BigFloat(self.m, wrapping(self.e + rhs)), panic |-> ~InI64(self.e + rhs)]

bigfloat_neg_in_place(self) == BigFloat(bigint_neg_in_place(self.m), self.e)

\* the mantissa of hi moved to the exponent of lo, d being hi.e - lo.e as computed
align(hi, d) == BigInt(hi.m.is_negative, shl_assign(hi.m.magnitude, d.v))

add_aligned(hi, lo, d) ==
    IF d.panic \/ ~shl_asserts(d.v) THEN Panics(hi)
    ELSE bigfloat_normalize(BigFloat(bigint_add_assign(align(hi, d), lo.m), lo.e))

bigfloat_add(self, rhs, dbg) ==
    IF bigfloat_is_zero(self) THEN Returns(rhs)
    ELSE IF bigfloat_is_zero(rhs) THEN Returns(self)
    ELSE IF self.e >= rhs.e THEN add_aligned(self, rhs, i64_op(self.e - rhs.e, dbg))
    ELSE add_aligned(rhs, self, i64_op(rhs.e - self.e, dbg))

sub_aligned(hi, lo, d) ==
    IF d.panic \/ ~shl_asserts(d.v) THEN Panics(hi)
    ELSE bigfloat_normalize(BigFloat(bigint_sub_assign(align(hi, d), lo.m), lo.e))

bigfloat_sub(self, rhs, dbg) ==
    IF bigfloat_is_zero(self) THEN Returns(bigfloat_neg_in_place(rhs))
    ELSE IF bigfloat_is_zero(rhs) THEN Returns(self)
    ELSE IF self.e >= rhs.e THEN sub_aligned(self, rhs, i64_op(self.e - rhs.e, dbg))
    ELSE sub_aligned(rhs, self, i64_op(rhs.e - self.e, dbg))

mul_exponent(mantissa, exponent) ==
    IF exponent.panic THEN Panics(BigFloat(mantissa, exponent.v))
    ELSE from_mantissa_exponent(mantissa, exponent.v)

bigfloat_mul(self, rhs, dbg) ==
    mul_exponent(bigint_mul_to(self.m, rhs.m), i64_op(self.e + rhs.e, dbg))

\* The head shared by the *_to_precision functions: skip is the early return,
\* otherwise lsb is new_lsb_weight and shift the count of bits to discard.
precision_shift_by(self, new_lsb_weight, dbg) ==
    IF new_lsb_weight.panic THEN [skip |-> FALSE, panic |-> TRUE, lsb |-> 0, shift |-> 0]
    ELSE IF new_lsb_weight.v <= self.e THEN [skip |-> TRUE, panic |-> FALSE, lsb |-> 0, shift |-> 0]
    ELSE [skip |-> FALSE,
          panic |-> dbg /\ ~InI64(new_lsb_weight.v - self.e),
          lsb |-> new_lsb_weight.v,
          shift |-> wrapping(new_lsb_weight.v - self.e)]

precision_shift(self, prec, dbg) ==
    IF bigfloat_is_zero(self) THEN [skip |-> TRUE, panic |-> FALSE, lsb |-> 0, shift |-> 0]
    ELSE precision_shift_by(self, i64_op(0 - prec, dbg), dbg)

round_magnitude_down(magnitude, shift) == shr_assign(magnitude, shift)

round_magnitude(magnitude, shift) ==
    IF bit(magnitude, shift - 1) THEN add_assign(shr_assign(magnitude, shift), <<1>>)
    ELSE shr_assign(magnitude, shift)

round_to_precision_by(self, s) ==
    IF s.skip THEN Returns(self)
    ELSE IF s.panic \/ s.shift < 0 THEN Panics(self)
    ELSE bigfloat_normalize(
        BigFloat(BigInt(self.m.is_negative, round_magnitude(self.m.magnitude, s.shift)), s.lsb))

round_to_precision(self, prec, dbg) ==
    round_to_precision_by(self, precision_shift(self, prec, dbg))

floor_to_precision_by(self, s) ==
    IF s.skip THEN Returns(self)
    ELSE IF s.panic \/ s.shift < 0 THEN Panics(self)
    ELSE bigfloat_normalize(BigFloat(bigint_shr_assign(self.m, s.shift), s.lsb))

floor_to_precision(self, prec, dbg) ==
    floor_to_precision_by(self, precision_shift(self, prec, dbg))

ceil_to_precision_by(self, s) ==
    IF s.skip THEN Returns(self)
    ELSE IF s.panic \/ s.shift < 0 THEN Panics(self)
    ELSE bigfloat_normalize(
        BigFloat(bigint_add_assign(bigint_shr_assign(self.m, s.shift), bigint_from(1)), s.lsb))

ceil_to_precision(self, prec, dbg) ==
    ceil_to_precision_by(self, precision_shift(self, prec, dbg))

\* x.m << x.e of the rounded clone x
round_to_int_shl(x) ==
    IF x.panic \/ ~shl_asserts(x.f.e) THEN [int |-> BIGINT_ZERO, panic |-> TRUE]
    ELSE [int |-> bigint_shl_assign(x.f.m, x.f.e), panic |-> FALSE]

round_to_int(self, dbg) == round_to_int_shl(round_to_precision(self, 0, dbg))

\* ... followed by round_to_precision
round_after(r, prec, dbg) == IF r.panic THEN r ELSE round_to_precision(r.f, prec, dbg)

add_with_precision(self, rhs, prec, dbg) == round_after(bigfloat_add(self, rhs, dbg), prec, dbg)

sub_with_precision(self, rhs, prec, dbg) == round_after(bigfloat_sub(self, rhs, dbg), prec, dbg)

mul_with_precision(self, rhs, prec, dbg) == round_after(bigfloat_mul(self, rhs, dbg), prec, dbg)

\* ---------------------------------------------------------------------------
\* SpecF: a BigFloat x is constructed and then mutated in place MaxOps times
\* ---------------------------------------------------------------------------

CanonicalInts(k) ==
    {BigInt(neg, mag) : neg \in BOOLEAN, mag \in Magnitudes(k)} \ {BigInt(TRUE, <<>>)}

ExponentsF == {MinInt, -2, -1, 0, 1, MaxInt}

OperandsF == {from_mantissa_exponent(m, e).f : m \in CanonicalInts(1), e \in {-1, 0, 1}}

ShiftsF == {0, 1, 3, MaxInt}

PrecisionsF == {MinInt, -1, 0, 1, 2}

InitF ==
    /\ pc = "ready"
    /\ op = "from_mantissa_exponent"
    /\ build \in Builds
    /\ step = 0
    /\ \E m \in CanonicalInts(MaxLenU), e \in ExponentsF :
          /\ ~from_mantissa_exponent(m, e).panic
          /\ arg = [x |-> from_mantissa_exponent(m, e).f]
    /\ out = [before |-> BIGFLOAT_ZERO, y |-> BIGFLOAT_ZERO, k |-> 0, int |-> BIGINT_ZERO]

ReadyF == pc = "ready" /\ step < MaxOps

\* x := r.f unless the operation panicked
StoreF(name, r, y, k) ==
    /\ op' = name
    /\ step' = step + 1
    /\ pc' = IF r.panic THEN "panic"
             ELSE IF Len(r.f.m.magnitude) > MaxLimbs THEN "done" ELSE "ready"
    /\ arg' = IF r.panic THEN arg ELSE [x |-> r.f]
    /\ out' = [before |-> arg.x, y |-> y, k |-> k, int |-> BIGINT_ZERO]
    /\ UNCHANGED build

FShl == ReadyF /\ \E k \in ShiftsF : StoreF("shl", bigfloat_shl_assign(arg.x, k), BIGFLOAT_ZERO, k)

FShr == ReadyF /\ \E k \in ShiftsF : StoreF("shr", bigfloat_shr_assign(arg.x, k), BIGFLOAT_ZERO, k)

FNeg == ReadyF /\ StoreF("neg", Returns(bigfloat_neg_in_place(arg.x)), BIGFLOAT_ZERO, 0)

FNormalize == ReadyF /\ StoreF("normalize", bigfloat_normalize(arg.x), BIGFLOAT_ZERO, 0)

FAdd == ReadyF /\ \E y \in OperandsF : StoreF("add", bigfloat_add(arg.x, y, build = "debug"), y, 0)

FSub == ReadyF /\ \E y \in OperandsF : StoreF("sub", bigfloat_sub(arg.x, y, build = "debug"), y, 0)

FMul == ReadyF /\ \E y \in OperandsF : StoreF("mul", bigfloat_mul(arg.x, y, build = "debug"), y, 0)

FRound ==
    ReadyF /\ \E p \in PrecisionsF :
        StoreF("round_to_precision", round_to_precision(arg.x, p, build = "debug"), BIGFLOAT_ZERO, p)

FFloor ==
    ReadyF /\ \E p \in PrecisionsF :
        StoreF("floor_to_precision", floor_to_precision(arg.x, p, build = "debug"), BIGFLOAT_ZERO, p)

FCeil ==
    ReadyF /\ \E p \in PrecisionsF :
        StoreF("ceil_to_precision", ceil_to_precision(arg.x, p, build = "debug"), BIGFLOAT_ZERO, p)

\* round_to_int works on a clone: x stays, the integer is returned
FRoundToIntReturn(r) ==
    /\ op' = "round_to_int"
    /\ step' = step + 1
    /\ pc' = IF r.panic THEN "panic" ELSE "ready"
    /\ out' = [before |-> arg.x, y |-> BIGFLOAT_ZERO, k |-> 0, int |-> r.int]
    /\ UNCHANGED <<arg, build>>

FRoundToInt == ReadyF /\ FRoundToIntReturn(round_to_int(arg.x, build = "debug"))

NextF ==
    \/ FShl
    \/ FShr
    \/ FNeg
    \/ FNormalize
    \/ FAdd
    \/ FSub
    \/ FMul
    \/ FRound
    \/ FFloor
    \/ FCeil
    \/ FRoundToInt

SpecF == InitF /\ [][NextF]_vars

RepresentationInvariant(f) ==
    IF f.m.magnitude = <<>> THEN f.e = 0 ELSE f.m.magnitude[1] % 2 = 1

\* C3: every BigFloat returned by a constructor or left behind by an in-place
\* mutation (normalize, add, sub, mul, shifts by any amount, the rounding
\* functions) satisfies the representation invariant: the mantissa is odd, or
\* the mantissa is zero and the exponent is zero.
C3_RepresentationInvariant == RepresentationInvariant(arg.x)

\* Every mutation other than the two shifts keeps the invariant it found.
C3_KeptExceptByShifts ==
    (op \notin {"shl", "shr"} /\ RepresentationInvariant(out.before))
        => RepresentationInvariant(arg.x)

CanonicalInt(v) == v.magnitude = <<>> => ~v.is_negative

\* C4: every signed integer produced by a public operation, the mantissa a
\* BigFloat is left with and the integer a rounding returns included, is
\* canonical: whenever its magnitude is zero its negative flag is false.
C4_SignedCanonical == CanonicalInt(arg.x.m) /\ CanonicalInt(out.int)

\* The same for everything but round_to_precision and what is built on it.
C4_CanonicalExceptRounding ==
    (op \notin {"round_to_precision", "round_to_int"} /\ CanonicalInt(out.before.m))
        => CanonicalInt(arg.x.m)

InWindow(f) == Abs(f.e) <= ExpWindow /\ Len(f.m.magnitude) <= MaxLimbs

\* the value of f in units of 2^emin, for emin <= f.e
FloatValue(f, emin) ==
    IF f.m.magnitude = <<>> THEN 0 ELSE bigint_value(f.m) * Pow2(f.e - emin)

SubExact ==
    /\ pc # "panic"
    /\ FloatValue(arg.x, Min(out.before.e, out.y.e))
          = FloatValue(out.before, Min(out.before.e, out.y.e))
              - FloatValue(out.y, Min(out.before.e, out.y.e))

\* C6: for all BigFloats a and b, whichever of the two has the smaller
\* exponent, a - b returns the BigFloat whose value is exactly
\* value(a) - value(b).
C6_SubExact ==
    (op = "sub" /\ InWindow(out.before) /\ InWindow(out.y)) => SubExact

\* The difference is exact when the exponent of a is not the smaller one.
C6_SubExactLeftNotSmaller ==
    (op = "sub" /\ InWindow(out.before) /\ InWindow(out.y)
        /\ (out.before.e >= out.y.e \/ bigfloat_is_zero(out.before) \/ bigfloat_is_zero(out.y)))
        => SubExact

\* SpecRound: one round_to_precision of a constructed BigFloat
FRoundOnce == step = 0 /\ FRound

SpecRound == InitF /\ [][FRoundOnce]_vars

\* f is an integer multiple of 2^k
MultipleOfPow2(f, k) ==
    f.m.magnitude = <<>> \/ f.e + trailing_zeros(f.m.magnitude) >= k

\* f is a multiple of 2^(-p) nearest to g: g itself when g is such a multiple,
\* zero when |g| < 2^(-p - 1), and otherwise within 2^(-p - 1) of g
NearestMultiple(f, g, p) ==
    IF MultipleOfPow2(g, 0 - p) THEN FloatValue(f, g.e) = FloatValue(g, g.e)
    ELSE IF (0 - p) - g.e > biguint_ilog2(g.m.magnitude) + 1 THEN f.m.magnitude = <<>>
    ELSE /\ MultipleOfPow2(f, 0 - p)
         /\ 2 * Abs(FloatValue(f, g.e) - FloatValue(g, g.e)) <= Pow2((0 - p) - g.e)

Rounded ==
    /\ pc # "panic"
    /\ MultipleOfPow2(arg.x, 0 - out.k)
    /\ NearestMultiple(arg.x, out.before, out.k)
    /\ round_to_precision(arg.x, out.k, build = "debug") = Returns(arg.x)

RECURSIVE ToLimbs(_)
ToLimbs(n) == IF n = 0 THEN <<>> ELSE <<n % Base>> \o ToLimbs(n \div Base)

\* the BigFloat t * 2^(-GridBits)
OnGrid(t) ==
    from_mantissa_exponent(BigInt(t < 0, ToLimbs(IF t < 0 THEN 0 - t ELSE t)), 0 - GridBits).f

\* what eval(prec) may return for the Real of value t * 2^(-GridBits)
Evals(t, prec) ==
    {OnGrid(u) : u \in {v \in (t - Pow2(GridBits)) .. (t + Pow2(GridBits)) :
                            Abs(v - t) < Pow2(GridBits - prec)}}

\* f in units of 2^(-GridBits), for f.e >= -GridBits
GridValue(f) == bigint_value(f.m) * Pow2(f.e + GridBits)

real_add(a, b, prec, dbg) == add_with_precision(a, b, prec + 2, dbg)

real_sub(a, b, prec, dbg) == sub_with_precision(a, b, prec + 2, dbg)

InitR ==
    /\ pc = "ready"
    /\ op = "new"
    /\ build \in Builds
    /\ step = 0
    /\ arg \in [x : (0 - MaxReal) .. MaxReal, y : (0 - MaxReal) .. MaxReal, prec : 0 .. MaxPrec]
    /\ out = [a |-> BIGFLOAT_ZERO, b |-> BIGFLOAT_ZERO, f |-> BIGFLOAT_ZERO]

\* eval(prec) of the Real x op y: the operands answer at prec + 2
RealReturn(name, a, b, r) ==
    /\ op' = name
    /\ pc' = IF r.panic THEN "panic" ELSE "done"
    /\ out' = [a |-> a, b |-> b, f |-> r.f]
    /\ step' = step + 1
    /\ UNCHANGED <<arg, build>>

RealAdd ==
    /\ pc = "ready"
    /\ \E a \in Evals(arg.x, arg.prec + 2), b \in Evals(arg.y, arg.prec + 2) :
          RealReturn("add", a, b, real_add(a, b, arg.prec, build = "debug"))

RealSub ==
    /\ pc = "ready"
    /\ \E a \in Evals(arg.x, arg.prec + 2), b \in Evals(arg.y, arg.prec + 2) :
          RealReturn("sub", a, b, real_sub(a, b, arg.prec, build = "debug"))

NextR ==
    \/ RealAdd
    \/ RealSub

SpecR == InitR /\ [][NextR]_vars

\* (x + y).eval(prec) is within 2^(-prec) of x + y
C5_AddWithinContract ==
    op = "add" =>
        /\ pc = "done"
        /\ Abs(GridValue(out.f) - (arg.x + arg.y)) < Pow2(GridBits - arg.prec)

\* C5: if x and y satisfy the precision contract then so do x + y and x - y:
\* (x + y).eval(p) is within 2^(-p) of x + y and (x - y).eval(p) is within
\* 2^(-p) of x - y, for every p.
C5_SumAndDifferenceWithinContract ==
    /\ C5_AddWithinContract
    /\ op = "sub" =>
          /\ pc = "done"
          /\ Abs(GridValue(out.f) - (arg.x - arg.y)) < Pow2(GridBits - arg.prec)

\* ---------------------------------------------------------------------------
\* SpecI: one floor division of signed integers
\* ---------------------------------------------------------------------------

InitI ==
    /\ pc = "ready"
    /\ op = "new"
    /\ build \in Builds
    /\ step = 0
    /\ arg \in [a : CanonicalInts(MaxLenU), d : CanonicalInts(MaxLenU) \ {BIGINT_ZERO}]
    /\ out = [q |-> BIGINT_ZERO, r |-> BIGINT_ZERO, panic |-> FALSE]

\* the operation returns s, or panics
Return(name, s) ==
    /\ op' = name
    /\ pc' = IF s.panic THEN "panic" ELSE "done"
    /\ out' = s
    /\ step' = step + 1
    /\ UNCHANGED <<arg, build>>

DivRemFloor == pc = "ready" /\ Return("div_rem_floor", div_rem_floor(arg.a, arg.d, build = "debug"))

NextI == DivRemFloor

SpecI == InitI /\ [][NextI]_vars

\* the floor of a / d, d non-zero
FloorDiv(a, d) == IF d > 0 THEN a \div d ELSE (0 - a) \div (0 - d)

FloorDivided ==
    /\ pc = "done"
    /\ bigint_value(out.q) = FloorDiv(bigint_value(arg.a), bigint_value(arg.d))
    /\ bigint_value(out.r) = bigint_value(arg.a) - bigint_value(out.q) * bigint_value(arg.d)

\* C7: for every signed a and non-zero signed d, div_rem_floor(a, d) returns
\* (q, r) with q the floor of a / d and r = a - q * d.
C7_DivRemFloor == op = "div_rem_floor" => FloorDivided

\* Floor division is right when the magnitudes divide correctly and the
\* truncated quotient is not zero (or the signs agree, or d divides a).
C7_FloorWhenQuotientNonZero ==
    (/\ op = "div_rem_floor"
     /\ Len(arg.d.magnitude) = 1
     /\ \/ biguint_cmp(arg.a.magnitude, arg.d.magnitude) >= 0
        \/ arg.a.is_negative = arg.d.is_negative
        \/ arg.a = BIGINT_ZERO)
        => FloorDivided

\* ---------------------------------------------------------------------------
\* SpecQ: one round_to_int of a Rational n / d
\* ---------------------------------------------------------------------------

\* (&mut n).div_rem(&mut d) for a BigUInt d
bigint_div_rem_to_u(self, d, dbg) ==
    bigint_div_rem_signs(self, BigInt(FALSE, d), div_rem_to(self.magnitude, d, dbg))

round_half(d, s) ==
    IF s.panic THEN [int |-> s.q, panic |-> TRUE]
    ELSE IF bigint_is_zero(s.r) THEN [int |-> s.q, panic |-> FALSE]
    ELSE IF biguint_cmp(shl_assign(s.r.magnitude, 1), d) >= 0
    THEN [int |-> BigInt(s.q.is_negative, add_assign(s.q.magnitude, <<1>>)), panic |-> FALSE]
    ELSE [int |-> s.q, panic |-> FALSE]

rational_round_to_int(n, d, dbg) == round_half(d, bigint_div_rem_to_u(n, d, dbg))

InitQ ==
    /\ pc = "ready"
    /\ op = "new"
    /\ build \in Builds
    /\ step = 0
    /\ arg \in [n : CanonicalInts(MaxLenU), d : Magnitudes(MaxLenU) \ {<<>>}]
    /\ out = [int |-> BIGINT_ZERO, panic |-> FALSE]

RoundToInt == pc = "ready" /\ Return("round_to_int", rational_round_to_int(arg.n, arg.d, build = "debug"))

NextQ == RoundToInt

SpecQ == InitQ /\ [][NextQ]_vars

\* the integer nearest to n / d, halves away from zero
NearestInt(n, d) ==
    IF n < 0 THEN 0 - ((2 * (0 - n) + d) \div (2 * d)) ELSE (2 * n + d) \div (2 * d)

RoundedToNearest ==
    /\ pc = "done"
    /\ bigint_value(out.int) = NearestInt(bigint_value(arg.n), Val(arg.d))

\* C8: for every Rational r, round_to_int(r) is the integer nearest to r,
\* exact halves rounded away from zero, for positive and negative r alike.
C8_RoundToIntNearest == op = "round_to_int" => RoundedToNearest

\* Rounding is right for every non-negative r, and for a negative r whose
\* truncated quotient is not zero (single-limb denominators).
C8_NearestWhenQuotientKeepsSign ==
    (/\ op = "round_to_int"
     /\ Len(arg.d) = 1
     /\ ~arg.n.is_negative \/ biguint_cmp(arg.n.magnitude, arg.d) >= 0)
        => RoundedToNearest

\* ---------------------------------------------------------------------------
\* SpecD: one reciprocal of a non-zero BigFloat.  Results are [f, panic, hang],
\* hang standing for a Newton loop still running after MaxIter iterations.
\* ---------------------------------------------------------------------------

BIGFLOAT_ONE == BigFloat(BIGINT_ONE, 0)

\* i64 `/`: truncates toward zero (the divisor is non-zero)
TruncDiv(a, b) == (IF (a < 0) = (b < 0) THEN 1 ELSE -1) * (Abs(a) \div Abs(b))

\* i64::ilog2 of a positive q
i64_ilog2(q) == CHOOSE k \in 0 .. ExpBits : Pow2(k) <= q /\ q < Pow2(k + 1)

\* callers pass a non-zero value (the source panics on zero)
bigfloat_ilog2(self) == biguint_ilog2(self.m.magnitude) + self.e

Fails(f) == [f |-> f, panic |-> TRUE, hang |-> FALSE]

Finishes(r) == [f |-> r.f, panic |-> r.panic, hang |-> FALSE]

\* The iteration x * (2 - s * x) converges only from 0 < s * x < 2, that is
\* from |delta| < 1.  From delta > 1 or delta <= -1 every later |delta| is at
\* least as large, so a loop that has not left by then never leaves.
Diverged(delta) ==
    ~bigfloat_is_zero(delta) /\ bigfloat_ilog2(delta) >= 0 /\ delta # BIGFLOAT_ONE

RECURSIVE newton_loop(_, _, _, _, _, _, _)
\* the end of one iteration: x is the next iterate, delta = 1 - s * x_n
newton_next(self, x, delta, working_prec, actual_prec, log_s, fuel, dbg) ==
    IF x.panic \/ delta.panic THEN Fails(x.f)
    ELSE IF bigfloat_is_zero(delta.f) \/ bigfloat_ilog2(delta.f) <= (0 - actual_prec) + log_s - 1
    THEN Finishes(round_to_precision(x.f, actual_prec, dbg))
    ELSE IF Diverged(delta.f) THEN [f |-> x.f, panic |-> FALSE, hang |-> TRUE]
    ELSE newton_loop(self, x.f, working_prec, actual_prec, log_s, fuel - 1, dbg)

newton_step(self, x, prod, working_prec, actual_prec, log_s, fuel, dbg) ==
    IF prod.panic THEN Fails(x)
    ELSE newton_next(
        self,
        mul_with_precision(
            x, sub_with_precision(BigFloat(BIGINT_ONE, 1), prod.f, working_prec, dbg).f,
            working_prec, dbg),
        sub_with_precision(BIGFLOAT_ONE, prod.f, working_prec, dbg),
        working_prec, actual_prec, log_s, fuel, dbg)

newton_loop(self, x, working_prec, actual_prec, log_s, fuel, dbg) ==
    IF fuel = 0 THEN [f |-> x, panic |-> FALSE, hang |-> TRUE]
    ELSE newton_step(self, x, mul_with_precision(self, x, working_prec, dbg),
                     working_prec, actual_prec, log_s, fuel, dbg)

\* q = target_log_epsilon / log_epsilon + 1, whose ilog2 panics unless q > 0
reciprocal_iterate(self, est, actual_prec, log_s, q, dbg) ==
    IF q <= 0 THEN Fails(est)
    ELSE newton_loop(
        self, est,
        actual_prec + (i64_ilog2(q) + 2) + Max(0, bigfloat_ilog2(est)) + WorkingSlack,
        actual_prec, log_s, MaxIter, dbg)

reciprocal_refine(self, est, actual_prec, log_epsilon, log_s, dbg) ==
    IF dbg /\ log_epsilon >= 0 THEN Fails(est)
    ELSE IF log_epsilon < log_s - actual_prec THEN Finishes(Returns(est))
    ELSE IF log_epsilon = 0 THEN Fails(est)
    ELSE reciprocal_iterate(self, est, actual_prec, log_s,
                            TruncDiv(log_s - actual_prec, log_epsilon) + 1, dbg)

\* epsilon = 1 - self * est
reciprocal_epsilon(self, est, epsilon, prec, dbg) ==
    IF epsilon.panic \/ bigfloat_is_zero(epsilon.f) THEN Fails(est)
    ELSE reciprocal_refine(self, est, prec + 2, bigfloat_ilog2(epsilon.f) + 1,
                           bigfloat_ilog2(self), dbg)

sub_from_one(r, dbg) == IF r.panic THEN r ELSE bigfloat_sub(BIGFLOAT_ONE, r.f, dbg)

reciprocal_estimated(self, est, prec, dbg) ==
    IF est.panic THEN Fails(est.f)
    ELSE reciprocal_epsilon(self, est.f, sub_from_one(bigfloat_mul(self, est.f, dbg), dbg), prec, dbg)

\* s = (q, r, panic) of the integer division (1 << shift) / self.m
reciprocal_quotient(self, s, shift, prec, dbg) ==
    IF s.panic THEN Fails(BIGFLOAT_ZERO)
    ELSE reciprocal_estimated(self, from_mantissa_exponent(s.q, (0 - self.e) - shift), prec, dbg)

reciprocal_estimate(self, shift, prec, dbg) ==
    reciprocal_quotient(
        self, bigint_div_rem_to(bigint_shl_assign(BIGINT_ONE, shift), self.m, dbg), shift, prec, dbg)

reciprocal(self, prec, dbg) ==
    IF bigfloat_is_zero(self) THEN Fails(self)
    ELSE IF is_one(self.m.magnitude)
    THEN Finishes(from_mantissa_exponent(
             IF self.m.is_negative THEN BIGINT_NEG_ONE ELSE BIGINT_ONE, 0 - self.e))
    ELSE reciprocal_estimate(self, biguint_ilog2(self.m.magnitude) + EstimateBits, prec, dbg)

InitD ==
    /\ pc = "ready"
    /\ op = "new"
    /\ build \in Builds
    /\ step = 0
    /\ \E m \in CanonicalInts(MaxLenU) \ {BIGINT_ZERO}, e \in -1 .. 1, p \in (0 - MaxPrec) .. MaxPrec :
          arg = [s |-> from_mantissa_exponent(m, e).f, prec |-> p]
    /\ out = Finishes(Returns(BIGFLOAT_ZERO))

Reciprocal == pc = "ready" /\ Return("reciprocal", reciprocal(arg.s, arg.prec, build = "debug"))

NextD == Reciprocal

SpecD == InitD /\ [][NextD]_vars

\* |y - 1/s| < 2^(-p), as |y * s - 1| * 2^k < |s| * 2^(k - p) for k large enough
WithinOfReciprocal(y, s, p, k) ==
    Abs(bigint_value(y.m) * bigint_value(s.m) * Pow2(y.e + s.e + k) - Pow2(k))
        < Abs(bigint_value(s.m)) * Pow2(s.e + k - p)

ReciprocalWithin ==
    /\ pc = "done"
    /\ ~out.hang
    /\ WithinOfReciprocal(out.f, arg.s, arg.prec,
                          Max(0, Max(0 - (out.f.e + arg.s.e), arg.prec - arg.s.e)))

\* C10: for every non-zero BigFloat s and every precision p, reciprocal(s, p)
\* terminates and returns y with |y - 1/s| < 2^(-p).
C10_Reciprocal == op = "reciprocal" => ReciprocalWithin

\* The same for mantissas of a single limb.
C10_ReciprocalSingleLimb ==
    (op = "reciprocal" /\ Len(arg.s.m.magnitude) = 1) => ReciprocalWithin

\* ---------------------------------------------------------------------------
\* SpecV: one BigFloat division a / b at precision prec
\* ---------------------------------------------------------------------------

\* self.mul_with_precision(&r, prec + 1), r being what reciprocal returned
div_multiply(self, r, prec, dbg) ==
    IF r.panic \/ r.hang THEN r
    ELSE Finishes(mul_with_precision(self, r.f, prec + 1, dbg))

\* rp = prec + self.ilog2() + 1 as i64 arithmetic
div_reciprocal(self, rhs, prec, rp, dbg) ==
    IF rp.panic THEN Fails(BIGFLOAT_ZERO)
    ELSE div_multiply(self, reciprocal(rhs, rp.v, dbg), prec, dbg)

\* self.ilog2() panics for a zero dividend ("attempt to take ilog2(0)")
bigfloat_div(self, rhs, prec, dbg) ==
    IF bigfloat_is_zero(self) THEN Fails(BIGFLOAT_ZERO)
    ELSE div_reciprocal(self, rhs, prec, i64_op(prec + bigfloat_ilog2(self) + 1, dbg), dbg)

InitV ==
    /\ pc = "ready"
    /\ op = "new"
    /\ build \in Builds
    /\ step = 0
    /\ \E m \in CanonicalInts(1), n \in CanonicalInts(MaxLenU) \ {BIGINT_ZERO},
          e \in -1 .. 1, g \in -1 .. 1, p \in (0 - MaxPrec) .. MaxPrec :
          arg = [a |-> from_mantissa_exponent(m, e).f, b |-> from_mantissa_exponent(n, g).f,
                 prec |-> p]
    /\ out = Finishes(Returns(BIGFLOAT_ZERO))

Div == pc = "ready" /\ Return("div", bigfloat_div(arg.a, arg.b, arg.prec, build = "debug"))

NextV == Div

SpecV == InitV /\ [][NextV]_vars

\* |y - a/b| < 2^(-p), as |y * b - a| * 2^k < |b| * 2^(k - p) for k large enough
WithinOfQuotient(y, a, b, p, k) ==
    Abs(bigint_value(y.m) * bigint_value(b.m) * Pow2(y.e + b.e + k) - bigint_value(a.m) * Pow2(a.e + k))
        < Abs(bigint_value(b.m)) * Pow2(b.e + k - p)

QuotientWithin ==
    /\ pc = "done"
    /\ ~out.hang
    /\ WithinOfQuotient(out.f, arg.a, arg.b, arg.prec,
                        Max(Max(0, 0 - arg.a.e), Max(0 - (out.f.e + arg.b.e), arg.prec - arg.b.e)))

\* C11: for every dividend a (zero included), every non-zero divisor b and
\* every precision p, div(a, b, p) returns y with |y - a/b| < 2^(-p) and does
\* not panic.
C11_Div == op = "div" => QuotientWithin

\* The same for a non-zero dividend and a divisor whose mantissa is one limb.
C11_DivNonZeroSingleLimb ==
    (op = "div" /\ ~bigfloat_is_zero(arg.a) /\ Len(arg.b.m.magnitude) = 1) => QuotientWithin

\* ---------------------------------------------------------------------------
\* SpecL: one floor division of BigFloats, a.div_floor(b)
\* ---------------------------------------------------------------------------

\* the exponent differences of the operands of SpecL stay far inside i64
cmp_abs_non_zero(a, b) ==
    IF bigfloat_ilog2(a) < bigfloat_ilog2(b) THEN -1
    ELSE IF bigfloat_ilog2(a) > bigfloat_ilog2(b) THEN 1
    ELSE IF a.e < b.e THEN biguint_cmp(a.m.magnitude, shl_assign(b.m.magnitude, b.e - a.e))
    ELSE IF a.e = b.e THEN biguint_cmp(a.m.magnitude, b.m.magnitude)
    ELSE biguint_cmp(shl_assign(a.m.magnitude, a.e - b.e), b.m.magnitude)

cmp_abs(self, other) ==
    IF bigfloat_is_zero(self) /\ bigfloat_is_zero(other) THEN 0
    ELSE IF bigfloat_is_zero(self) THEN -1
    ELSE IF bigfloat_is_zero(other) THEN 1
    ELSE cmp_abs_non_zero(self, other)

\* the two mantissas brought to the smaller exponent
div_int_helper(self, rhs) ==
    IF self.e < rhs.e THEN [n_m |-> self.m, d_m |-> bigint_shl_assign(rhs.m, rhs.e - self.e)]
    ELSE IF self.e = rhs.e THEN [n_m |-> self.m, d_m |-> rhs.m]
    ELSE [n_m |-> bigint_shl_assign(self.m, self.e - rhs.e), d_m |-> rhs.m]

div_floor_aligned(h, dbg) == div_rem_floor(h.n_m, h.d_m, dbg)

div_floor_ordered(self, rhs, ord, dbg) ==
    IF ord < 0 THEN [q |-> BIGINT_ZERO, r |-> BIGINT_ZERO, panic |-> FALSE]
    ELSE IF ord = 0
    THEN [q |-> IF self.m.is_negative = rhs.m.is_negative THEN BIGINT_ONE ELSE BIGINT_NEG_ONE,
          r |-> BIGINT_ZERO, panic |-> FALSE]
    ELSE div_floor_aligned(div_int_helper(self, rhs), dbg)

\* q is the value returned; r is the remainder the integer division leaves behind
bigfloat_div_floor(self, rhs, dbg) ==
    IF bigfloat_is_zero(rhs) THEN [q |-> BIGINT_ZERO, r |-> BIGINT_ZERO, panic |-> TRUE]
    ELSE div_floor_ordered(self, rhs, cmp_abs(self, rhs), dbg)

InitL ==
    /\ pc = "ready"
    /\ op = "new"
    /\ build \in Builds
    /\ step = 0
    /\ \E m \in CanonicalInts(MaxLenU), n \in CanonicalInts(MaxLenU) \ {BIGINT_ZERO},
          e \in -1 .. 1, g \in -1 .. 1 :
          arg = [a |-> from_mantissa_exponent(m, e).f, b |-> from_mantissa_exponent(n, g).f]
    /\ out = [q |-> BIGINT_ZERO, r |-> BIGINT_ZERO, panic |-> FALSE]

DivFloor == pc = "ready" /\ Return("div_floor", bigfloat_div_floor(arg.a, arg.b, build = "debug"))

NextL == DivFloor

SpecL == InitL /\ [][NextL]_vars

\* the floor of a / b, both scaled by 2^k to integers
FloatFloorDiv(a, b, k) ==
    FloorDiv(bigint_value(a.m) * Pow2(a.e + k), bigint_value(b.m) * Pow2(b.e + k))

FloorOfQuotient ==
    /\ pc = "done"
    /\ CanonicalInt(out.q)
    /\ bigint_value(out.q) = FloatFloorDiv(arg.a, arg.b, Max(0, Max(0 - arg.a.e, 0 - arg.b.e)))

\* C12: for every BigFloat a and every non-zero BigFloat b, of any signs and
\* relative magnitudes, div_floor(a, b) returns the integer floor(a / b).
C12_DivFloor == op = "div_floor" => FloorOfQuotient

\* The same when |a| >= |b| and the aligned divisor has a single limb.
C12_DivFloorNotSmaller ==
    (/\ op = "div_floor"
     /\ cmp_abs(arg.a, arg.b) >= 0
     /\ Len(div_int_helper(arg.a, arg.b).d_m.magnitude) = 1)
        => FloorOfQuotient

\* ---------------------------------------------------------------------------
\* SpecG: Real division x.div(y, tol), then one eval(prec) of the quotient.
\* The Reals x and y have the values arg.x and arg.y in units of 2^(-GridBits)
\* and answer eval(p) with a grid point within 2^(-p) of their value.
\* ---------------------------------------------------------------------------

DividendsG == {-3, 0, 1}

DivisorsG == {0 - MaxReal, -1, 0, 2, MaxReal}

TolerancesG == 0 .. 3

\* the answers of Evals(t, prec) that are farthest from t, and t itself
EdgeEvals(t, prec) ==
    {OnGrid(u) : u \in {t, t - (Pow2(Min(GridBits - prec, GridBits)) - 1),
                           t + (Pow2(Min(GridBits - prec, GridBits)) - 1)}}

\* a Real is a function of the precision: asked twice at one precision, it
\* gives one answer
SameAnswer(p, a, q, b) == p = q => a = b

\* the divisor test with `<` in place of `<=`
real_div_uncertain_strict(d_round, tau) == cmp_abs(d_round, tau) < 0

\* d_round.cmp_abs(&tau) != Ordering::Greater
real_div_uncertain(d_round, tau) == cmp_abs(d_round, tau) # 1

ilog2_or_zero(f) == IF bigfloat_is_zero(f) THEN 0 ELSE bigfloat_ilog2(f)

\* the ilog2 of d_round -/+ tau, r being that difference or sum
d_lower_bound(r) ==
    [v |-> IF r.panic \/ bigfloat_is_zero(r.f) THEN 0 ELSE bigfloat_ilog2(r.f),
     panic |-> r.panic \/ bigfloat_is_zero(r.f)]

d_lower_bound_ilog2(d_round, tau, dbg) ==
    d_lower_bound(IF d_round.m.is_negative THEN bigfloat_add(d_round, tau, dbg)
                  ELSE bigfloat_sub(d_round, tau, dbg))

NoQuotient == [f |-> BIGFLOAT_ZERO, n |-> BIGFLOAT_ZERO, d |-> BIGFLOAT_ZERO, prec |-> 0, hang |-> FALSE]

\* what Real::div leaves: Err(self), or Ok with the three captured logarithms
real_div_ok(d_round, n_round, lb) ==
    [err |-> FALSE, recovery |-> 0, d_round |-> d_round, n_round |-> n_round,
     n_ilog2 |-> ilog2_or_zero(n_round),
     d_ilog2 |-> ilog2_or_zero(d_round), d_lb |-> lb.v, panic |-> lb.panic, q |-> NoQuotient]

real_div_err(self, d_round, panic) ==
    [err |-> ~panic, recovery |-> self, d_round |-> d_round, n_round |-> BIGFLOAT_ZERO,
     n_ilog2 |-> 0, d_ilog2 |-> 0,
     d_lb |-> 0, panic |-> panic, q |-> NoQuotient]

real_div(self, d_round, n_round, tau, dbg) ==
    IF tau.panic THEN real_div_err(self, d_round, TRUE)
    ELSE IF real_div_uncertain(d_round, tau.f) THEN real_div_err(self, d_round, FALSE)
    ELSE real_div_ok(d_round, n_round, d_lower_bound_ilog2(d_round, tau.f, dbg))

InitG ==
    /\ pc = "ready"
    /\ op = "new"
    /\ build \in Builds
    /\ step = 0
    /\ arg \in [x : DividendsG, y : DivisorsG, tol : TolerancesG]
    /\ out = real_div_err(0, BIGFLOAT_ZERO, FALSE)

RealDivReturn(s) ==
    /\ op' = "div"
    /\ pc' = IF s.panic THEN "panic" ELSE IF s.err THEN "err" ELSE "ok"
    /\ out' = s
    /\ step' = step + 1
    /\ UNCHANGED <<arg, build>>

RealDiv ==
    /\ pc = "ready"
    /\ \E d_round \in Evals(arg.y, arg.tol), n_round \in EdgeEvals(arg.x, 0) :
          RealDivReturn(real_div(arg.x, d_round, n_round,
                                 bigfloat_shr_assign(BIGFLOAT_ONE, arg.tol), build = "debug"))

\* the division alone
SpecGDiv == InitG /\ [][RealDiv]_vars

prec_d(s, prec) == (prec + 1) + 2 * s.d_lb + s.n_ilog2 + 2

prec_n(s, prec) == (prec + 1) + 2 * s.d_lb + s.d_ilog2 + 2

\* n.div(&d, actual_prec)
real_div_eval(n, d, prec, dbg) == bigfloat_div(n, d, prec + 1, dbg)

QuotientReturn(n, d, prec, r) ==
    /\ op' = "eval"
    /\ pc' = IF r.panic THEN "panic" ELSE "done"
    /\ out' = [out EXCEPT !.q = [f |-> r.f, n |-> n, d |-> d, prec |-> prec, hang |-> r.hang],
                          !.panic = r.panic]
    /\ step' = step + 1
    /\ UNCHANGED <<arg, build>>

QuotientEval ==
    /\ pc = "ok"
    /\ \E prec \in (0 - MaxPrec) .. MaxPrec :
          \E d \in EdgeEvals(arg.y, prec_d(out, prec)), n \in EdgeEvals(arg.x, prec_n(out, prec)) :
              /\ SameAnswer(prec_d(out, prec), d, arg.tol, out.d_round)
              /\ SameAnswer(prec_n(out, prec), n, 0, out.n_round)
              /\ QuotientReturn(n, d, prec, real_div_eval(n, d, prec, build = "debug"))

NextG ==
    \/ RealDiv
    \/ QuotientEval

SpecG == InitG /\ [][NextG]_vars

\* |q - x / y| < 2^(-p) for x, y in units of 2^(-GridBits):
\* |q * y - x| * 2^k < |y| * 2^(k - p) for k large enough
WithinOfRealQuotient(q, x, y, p, k) ==
    Abs(bigint_value(q.m) * y * Pow2(q.e + k) - x * Pow2(k)) < Abs(y) * Pow2(k - p)

RealQuotientWithin ==
    /\ pc = "done"
    /\ ~out.q.hang
    /\ WithinOfRealQuotient(out.q.f, arg.x, arg.y, out.q.prec, Max(0, Max(0 - out.q.f.e, out.q.prec)))

\* C14: whenever x.div(y, tol) returns Ok(q), q.eval(p) completes without a
\* hard failure and is within 2^(-p) of x / y, for every p.
C14_QuotientWithinContract == op = "eval" => RealQuotientWithin

\* ---------------------------------------------------------------------------
\* SpecM: Real multiplication x * y, then one eval(prec) of the product
\* ---------------------------------------------------------------------------

FactorsM == {0 - MaxReal, 0, 1, Pow2(GridBits)}

\* what Mul for Real captures: the logarithms of the two probes at precision 0
real_mul(a_round, b_round) ==
    [a_round |-> a_round, b_round |-> b_round,
     a_ilog2 |-> ilog2_or_zero(a_round), b_ilog2 |-> ilog2_or_zero(b_round),
     a |-> BIGFLOAT_ZERO, b |-> BIGFLOAT_ZERO, f |-> BIGFLOAT_ZERO, prec |-> 0, panic |-> FALSE]

\* the precisions the product's closure asks of its operands
prec_a(s, prec) == (prec + 1) + 3 + s.b_ilog2

prec_b(s, prec) == Max((prec + 1) + 3 + s.a_ilog2, 0 - s.b_ilog2)

\* a.mul_with_precision(&b, actual_prec)
real_mul_eval(a, b, prec, dbg) == mul_with_precision(a, b, prec + 1, dbg)

InitM ==
    /\ pc = "ready"
    /\ op = "new"
    /\ build \in Builds
    /\ step = 0
    /\ arg \in [x : FactorsM, y : FactorsM]
    /\ out = real_mul(BIGFLOAT_ZERO, BIGFLOAT_ZERO)

RealMul ==
    /\ pc = "ready"
    /\ \E a_round \in EdgeEvals(arg.x, 0), b_round \in EdgeEvals(arg.y, 0) :
          /\ op' = "mul"
          /\ pc' = "ok"
          /\ out' = real_mul(a_round, b_round)
          /\ step' = step + 1
          /\ UNCHANGED <<arg, build>>

ProductReturn(a, b, prec, r) ==
    /\ op' = "eval"
    /\ pc' = IF r.panic THEN "panic" ELSE "done"
    /\ out' = [out EXCEPT !.a = a, !.b = b, !.f = r.f, !.prec = prec, !.panic = r.panic]
    /\ step' = step + 1
    /\ UNCHANGED <<arg, build>>

ProductEval ==
    /\ pc = "ok"
    /\ \E prec \in (0 - MaxPrec) .. MaxPrec :
          \E a \in EdgeEvals(arg.x, prec_a(out, prec)), b \in EdgeEvals(arg.y, prec_b(out, prec)) :
              /\ SameAnswer(prec_a(out, prec), a, 0, out.a_round)
              /\ SameAnswer(prec_b(out, prec), b, 0, out.b_round)
              /\ ProductReturn(a, b, prec, real_mul_eval(a, b, prec, build = "debug"))

NextM ==
    \/ RealMul
    \/ ProductEval

SpecM == InitM /\ [][NextM]_vars

\* |f - x * y| < 2^(-p) for x, y in units of 2^(-GridBits), scaled by 2^k
WithinOfRealProduct(f, x, y, p, k) ==
    Abs(bigint_value(f.m) * Pow2(f.e + 2 * GridBits + k) - x * y * Pow2(k))
        < Pow2(2 * GridBits + k - p)

RealProductWithin ==
    /\ pc = "done"
    /\ WithinOfRealProduct(out.f, arg.x, arg.y, out.prec, Max(0, 0 - (out.f.e + 2 * GridBits)))

\* C15: if x and y satisfy the precision contract then, for every precision
\* p (negative, zero or positive), (x * y).eval(p) is within 2^(-p) of x * y.
C15_ProductWithinContract == op = "eval" => RealProductWithin

\* The same when both probes at precision 0 are at least 1 in magnitude or zero
C15_ProductOfLargeProbes ==
    (op = "eval" /\ out.a_ilog2 >= 0 /\ out.b_ilog2 >= 0) => RealProductWithin

\* ---------------------------------------------------------------------------
\* SpecK: one eval(prec) of the Real constant ln 2
\* ---------------------------------------------------------------------------

\* ln 2 lies between Ln2Lo / 2^16 and (Ln2Lo + 1) / 2^16
Ln2Lo == 45426

\* BigFloat::from of a machine integer: the mantissa src, normalized
bigfloat_from(src) ==
    from_mantissa_exponent(BigInt(src < 0, ToLimbs(Abs(src))), 0).f

\* res += &(a >> k), a being what reciprocal returned
ln2_add(res, a, k, dbg) ==
    IF a.panic \/ a.hang THEN a
    ELSE IF bigfloat_shr_assign(a.f, k).panic THEN Fails(res)
    ELSE Finishes(bigfloat_add(res, bigfloat_shr_assign(a.f, k).f, dbg))

RECURSIVE ln2_loop(_, _, _, _, _)
\* while k <= prec { res += (1 / k) >> k; k += 1 }, then the rounding
ln2_loop(k, res, prec, working_prec, dbg) ==
    IF res.panic \/ res.hang THEN res
    ELSE IF k > prec THEN Finishes(round_to_precision(res.f, prec, dbg))
    ELSE ln2_loop(k + 1,
                  ln2_add(res.f, reciprocal(bigfloat_from(k), working_prec, dbg),
                          k, dbg),
                  prec, working_prec, dbg)

\* prec.ilog2() panics unless prec > 0
ln2_underestimate(prec, dbg) ==
    IF prec <= 0 THEN Fails(BIGFLOAT_ZERO)
    ELSE ln2_loop(1, Finishes(Returns(BIGFLOAT_ZERO)), prec,
                  prec + i64_ilog2(prec) + WorkingSlack, dbg)

ln2(prec, dbg) == ln2_underestimate(prec, dbg)

InitK ==
    /\ pc = "ready"
    /\ op = "new"
    /\ build \in Builds
    /\ step = 0
    /\ arg \in [prec : MinInt .. (MaxPrec + 1)]
    /\ out = Finishes(Returns(BIGFLOAT_ZERO))

Ln2Eval == pc = "ready" /\ Return("ln2", ln2(arg.prec, build = "debug"))

NextK == Ln2Eval

SpecK == InitK /\ [][NextK]_vars

\* |f - ln 2| < 2^(-p), from the bounds on ln 2, for f a multiple of 2^(-16)
WithinOfLn2(f, p) ==
    /\ bigint_value(f.m) * Pow2(f.e + 16) - Ln2Lo < Pow2(16 - p)
    /\ (Ln2Lo + 1) - bigint_value(f.m) * Pow2(f.e + 16) < Pow2(16 - p)

\* C16: for the Real constant ln 2 and every precision p, p <= 0 included,
\* eval(p) completes without a hard failure and is within 2^(-p) of ln 2.
C16_Ln2WithinContract ==
    op = "ln2" => (pc = "done" /\ ~out.hang /\ WithinOfLn2(out.f, arg.prec))

\* The same for the positive precisions
C16_Ln2PositivePrecision ==
    (op = "ln2" /\ arg.prec > 0) => (pc = "done" /\ ~out.hang /\ WithinOfLn2(out.f, arg.prec))

\* ---------------------------------------------------------------------------
\* SpecIeee: one BigFloat::try_from of a binary floating-point number.  The
\* format has 1 sign bit, FloatExpBits exponent bits and FloatMantBits
\* mantissa bits (f32: 8 and 23, f64: 11 and 52); arg is the bit pattern.
\* ---------------------------------------------------------------------------

FloatExpBits == 3

FloatMantBits == 3

EXPONENT_MASK == Pow2(FloatExpBits) - 1

MANTISSA_MISSING_ONE_MASK == Pow2(FloatMantBits)

EXPONENT_DEBIAS == 0 - (Pow2(FloatExpBits - 1) - 1)

\* f32::classify / f64::classify
classify(val) ==
    IF val.exp = EXPONENT_MASK THEN (IF val.mant = 0 THEN "Infinite" ELSE "Nan")
    ELSE IF val.exp = 0 THEN (IF val.mant = 0 THEN "Zero" ELSE "Subnormal")
    ELSE "Normal"

\* ilog2 of a positive machine integer
uint_ilog2(mant) == CHOOSE k \in 0 .. (FloatMantBits + 1) : Pow2(k) <= mant /\ mant < Pow2(k + 1)

\* mant.leading_zeros() less the bits of the word above the mantissa field
\* and its leading one
subnormal_shift(mant) == FloatMantBits - uint_ilog2(mant)

\* (is_negative, mantissa, exponent), or the error
f_to_parts(val) ==
    IF classify(val) = "Nan" THEN [err |-> "NaN", is_negative |-> FALSE, m |-> 0, e |-> 0]
    ELSE IF classify(val) = "Infinite"
    THEN [err |-> "Infinite", is_negative |-> FALSE, m |-> 0, e |-> 0]
    ELSE IF classify(val) = "Zero" THEN [err |-> "", is_negative |-> FALSE, m |-> 0, e |-> 0]
    ELSE IF classify(val) = "Subnormal"
    THEN [err |-> "", is_negative |-> val.sign = 1,
          m |-> val.mant * Pow2(subnormal_shift(val.mant)),
          e |-> (EXPONENT_DEBIAS + 1) - subnormal_shift(val.mant)]
    ELSE [err |-> "", is_negative |-> val.sign = 1,
          m |-> val.mant + MANTISSA_MISSING_ONE_MASK,
          e |-> val.exp + EXPONENT_DEBIAS]

\* TrySetVal<f32> / TrySetVal<f64> for BigFloat, parts being what f_to_parts
\* returned; m.ilog2() panics for m = 0
try_set_val_parts(parts) ==
    IF parts.err # "" THEN [err |-> parts.err, f |-> BIGFLOAT_ZERO, panic |-> FALSE]
    ELSE IF parts.m = 0 THEN [err |-> "", f |-> BIGFLOAT_ZERO, panic |-> TRUE]
    ELSE [err |-> "",
          f |-> bigfloat_normalize(BigFloat(BigInt(parts.is_negative, ToLimbs(parts.m)),
                                            parts.e - uint_ilog2(parts.m))).f,
          panic |-> bigfloat_normalize(BigFloat(BigInt(parts.is_negative, ToLimbs(parts.m)),
                                                parts.e - uint_ilog2(parts.m))).panic]

try_set_val(val) == try_set_val_parts(f_to_parts(val))

InitIeee ==
    /\ pc = "ready"
    /\ op = "new"
    /\ build \in Builds
    /\ step = 0
    /\ arg \in [sign : {0, 1}, exp : 0 .. EXPONENT_MASK, mant : 0 .. (Pow2(FloatMantBits) - 1)]
    /\ out = [err |-> "", f |-> BIGFLOAT_ZERO, panic |-> FALSE]

TryFromFloat == pc = "ready" /\ Return("try_from", try_set_val(arg))

NextIeee == TryFromFloat

SpecIeee == InitIeee /\ [][NextIeee]_vars

Finite(val) == val.exp # EXPONENT_MASK

\* the value of a finite float in units of 2^(EXPONENT_DEBIAS + 1 - FloatMantBits)
FloatBitsValue(val) ==
    (IF val.sign = 1 THEN -1 ELSE 1)
        * (IF val.exp = 0 THEN val.mant
           ELSE (val.mant + Pow2(FloatMantBits)) * Pow2(val.exp - 1))

\* the BigFloat f in the same units; f.e is never below the unit's exponent
BigFloatBitsValue(f) ==
    bigint_value(f.m) * Pow2(f.e - (EXPONENT_DEBIAS + 1 - FloatMantBits))

ConvertedExactly ==
    /\ pc = "done"
    /\ IF Finite(arg)
       THEN /\ out.err = ""
            /\ f_to_parts(arg).m # 0 => out.f.e >= EXPONENT_DEBIAS + 1 - FloatMantBits
            /\ BigFloatBitsValue(out.f) = FloatBitsValue(arg)
       ELSE out.err # ""

\* C17: constructing a BigFloat from an IEEE float returns an error for NaN
\* and the infinities and, for every finite input (normal, subnormal, +0 and
\* -0), succeeds without a panic with a BigFloat equal to the input.
C17_FromFloat == op = "try_from" => ConvertedExactly

\* The same for every input but the two zeros
C17_FromFloatNonZero ==
    (op = "try_from" /\ classify(arg) # "Zero") => ConvertedExactly

\* ---------------------------------------------------------------------------
\* SpecParse: one from_ascii_radix call of BigUInt or BigInt on a byte string.
\* ---------------------------------------------------------------------------

\* the outcome of a parse: the error, or the local is_negative and the parsed
\* magnitude
Parsed(s, is_negative) ==
    [ok |-> s.ok, err |-> s.err, panic |-> FALSE, is_negative |-> is_negative, data |-> s.data]

\* src[0] of an empty slice: index out of bounds
ParseIndexPanic ==
    [ok |-> FALSE, err |-> "none", panic |-> TRUE, is_negative |-> TRUE, data |-> <<>>]

\* BigInt::from_ascii_radix after the test for a leading '-'
bigint_after_minus(src, is_negative, radix) ==
    IF src = <<>> THEN ParseIndexPanic
    ELSE IF src[1] = "+" THEN Parsed(parse_helper(Tail(src), radix), is_negative)
    ELSE Parsed(parse_helper(src, radix), is_negative)

\* BigInt::from_ascii_radix
bigint_from_ascii_radix(src, radix) ==
    IF src = <<>> THEN Parsed([ok |-> FALSE, data |-> <<>>, err |-> "Empty"], FALSE)
    ELSE IF src[1] = "-" THEN bigint_after_minus(Tail(src), TRUE, radix)
    ELSE bigint_after_minus(src, FALSE, radix)

InitParse ==
    /\ pc = "ready"
    /\ op = "new"
    /\ build \in Builds
    /\ step = 0
    /\ arg \in [src : SeqsUpTo(Bytes, MaxStr + 1), radix : Radixes, signed : BOOLEAN]
    /\ out = Parsed([ok |-> FALSE, data |-> <<>>, err |-> "none"], FALSE)

ParseUInt ==
    /\ pc = "ready"
    /\ ~arg.signed
    /\ Return("from_ascii_radix", Parsed(biguint_from_ascii_radix(arg.src, arg.radix), FALSE))

ParseInt ==
    /\ pc = "ready"
    /\ arg.signed
    /\ Return("from_ascii_radix", bigint_from_ascii_radix(arg.src, arg.radix))

NextParse == ParseUInt \/ ParseInt

SpecParse == InitParse /\ [][NextParse]_vars

IsSign(c, signed) == c = "+" \/ (signed /\ c = "-")

AllDigits(src, radix) ==
    /\ src # <<>>
    /\ \A i \in 1 .. Len(src) : parse_ascii_digit(src[i]) >= 0 /\ parse_ascii_digit(src[i]) < radix

\* an optional single sign followed by at least one digit of the radix
WellFormedInt(src, radix, signed) ==
    /\ src # <<>>
    /\ IF IsSign(src[1], signed) THEN AllDigits(Tail(src), radix) ELSE AllDigits(src, radix)

ParsedOrRejected ==
    /\ pc = "done"
    /\ out.ok <=> WellFormedInt(arg.src, arg.radix, arg.signed)
    /\ ~out.ok => out.err \in {"Empty", "InvalidDigit", "Negative"}

\* C18: parsing a BigUInt or a BigInt from any byte string never panics; it
\* returns Ok exactly when the string is an optional single sign followed by
\* at least one valid digit, and a parse error otherwise.
C18_ParseNeverFails == op = "from_ascii_radix" => ParsedOrRejected

\* The same for BigUInt, and for BigInt when the string has no leading '-'
C18_ParseWithoutMinus ==
    (op = "from_ascii_radix" /\ (~arg.signed \/ arg.src = <<>> \/ arg.src[1] # "-"))
        => ParsedOrRejected

\* ---------------------------------------------------------------------------
\* SpecE: the calculator's eval on one parsed expression.  The expressions
\* are those over the numbers "0", "1" and "2" with at most one operator, an
\* unknown constant and an unknown function; arg.prec is the precision the
\* user typed, which is also the tolerance of the division.
\* ---------------------------------------------------------------------------

NumbersE == {0, 1, 2}

PrecisionsE == {MinInt, 0, 1}

Expr(kind, o, l, r) == [kind |-> kind, op |-> o, l |-> l, r |-> r]

ExprsE ==
    {Expr("Number", "", n, 0) : n \in NumbersE}
        \cup {Expr("Const", "e", 0, 0)}
        \cup {Expr("FnCall", "exp", n, 0) : n \in NumbersE}
        \cup {Expr("Binary", o, l, r) : o \in {"Add", "Sub", "Mul", "Div"}, l \in NumbersE, r \in NumbersE}
        \cup {Expr("Unary", o, n, 0) : o \in {"Neg", "Pos"}, n \in NumbersE}

\* the closure of Real::from_string for a string of digits: fract is "0" and
\* from_ascii_radix_with_precision returns the whole part
number_eval(n) == bigfloat_from(n)

EvalOk == [panic |-> FALSE, err |-> ""]

EvalErr(e) == [panic |-> FALSE, err |-> e]

\* BinOp::Div => l.div(r, tol).map_err(|_| EvalError::ArithmeticError), s
\* being what Real::div did
eval_internal_div(s) ==
    IF s.panic THEN [panic |-> TRUE, err |-> ""]
    ELSE IF s.err THEN EvalErr("Arithmetic error")
    ELSE EvalOk

\* Expr::eval_internal: the error, the panic, or Ok of a Real
eval_internal(expr, tol, dbg) ==
    IF expr.kind = "Const" THEN EvalErr("Invalid constant")
    ELSE IF expr.kind = "FnCall" THEN EvalErr("Invalid function call")
    ELSE IF expr.kind = "Binary" /\ expr.op = "Div"
    THEN eval_internal_div(real_div(expr.l, number_eval(expr.r), number_eval(expr.l),
                                    bigfloat_shr_assign(BIGFLOAT_ONE, tol), dbg))
    ELSE EvalOk

\* Expr::eval: catch_unwind around eval_internal
expr_eval_guard(s) ==
    IF s.panic THEN [err |-> "Arithmetic error", raised |-> "eval_internal"]
    ELSE [err |-> s.err, raised |-> "none"]

expr_eval(expr, tol, dbg) == expr_eval_guard(eval_internal(expr, tol, dbg))

\* eval(prec) of the Real that eval_internal returned for expr
real_eval(expr, prec, dbg) ==
    IF expr.kind = "Number"
    THEN [f |-> number_eval(expr.l), panic |-> FALSE, hang |-> FALSE]
    ELSE IF expr.kind = "Unary"
    THEN [f |-> IF expr.op = "Neg" THEN bigfloat_neg_in_place(number_eval(expr.l))
                ELSE number_eval(expr.l),
          panic |-> FALSE, hang |-> FALSE]
    ELSE IF expr.op = "Add"
    THEN Finishes(real_add(number_eval(expr.l), number_eval(expr.r), prec, dbg))
    ELSE IF expr.op = "Sub"
    THEN Finishes(real_sub(number_eval(expr.l), number_eval(expr.r), prec, dbg))
    ELSE IF expr.op = "Mul"
    THEN Finishes(real_mul_eval(number_eval(expr.l), number_eval(expr.r), prec, dbg))
    ELSE real_div_eval(number_eval(expr.l), number_eval(expr.r), prec, dbg)

\* what the outer catch_unwind of eval makes of expr.to_string(prec)
main_eval_shown(r) ==
    IF r.panic THEN [text |-> "Error", raised |-> "to_string", f |-> BIGFLOAT_ZERO]
    ELSE IF r.hang THEN [text |-> "", raised |-> "none", f |-> BIGFLOAT_ZERO]
    ELSE [text |-> "value", raised |-> "none", f |-> r.f]

\* eval of main.rs after the parser returned expr
main_eval_result(expr, prec, s, dbg) ==
    IF s.err # "" THEN [text |-> s.err, raised |-> s.raised, f |-> BIGFLOAT_ZERO]
    ELSE main_eval_shown(real_eval(expr, prec, dbg))

main_eval(expr, prec, dbg) == main_eval_result(expr, prec, expr_eval(expr, prec, dbg), dbg)

InitE ==
    /\ pc = "ready"
    /\ op = "new"
    /\ build \in Builds
    /\ step = 0
    /\ arg \in [expr : ExprsE, prec : PrecisionsE]
    /\ out = [text |-> "", raised |-> "none", f |-> BIGFLOAT_ZERO]

Eval ==
    /\ pc = "ready"
    /\ op' = "eval"
    /\ pc' = "done"
    /\ out' = main_eval(arg.expr, arg.prec, build = "debug")
    /\ step' = step + 1
    /\ UNCHANGED <<arg, build>>

NextE == Eval

SpecE == InitE /\ [][NextE]_vars

C19_PanicsWhileBuilding ==
    (op = "eval" /\ out.raised = "eval_internal") => out.text = "Arithmetic error"

\* ---------------------------------------------------------------------------
\* SpecInPlace: one div_rem call with the operands it leaves behind.  n and d
\* are &mut: div_rem_to_unchecked shifts both left in place, divides, and
\* shifts both back.
\* ---------------------------------------------------------------------------

\* an operand left as the normalization shifted it
div_rem_restore_skipped(x, normalization_bitshift) == x

\* *n >>= normalization_bitshift; *d >>= normalization_bitshift
div_rem_restore(x, normalization_bitshift) == shr_assign(x, normalization_bitshift)

\* n and d after div_rem_to_unchecked, s being what the division between the
\* shifts did: a panic there unwinds before the shifts back
div_rem_unchecked_operands(n, d, normalization_bitshift, s) ==
    IF s.panic
    THEN [n |-> shl_assign(n, normalization_bitshift), d |-> shl_assign(d, normalization_bitshift)]
    ELSE [n |-> div_rem_restore(shl_assign(n, normalization_bitshift), normalization_bitshift),
          d |-> div_rem_restore(shl_assign(d, normalization_bitshift), normalization_bitshift)]

\* n and d after div_rem_to, s being the (q, r) it produced
div_rem_operands(n, d, s) ==
    IF d = <<>> \/ biguint_cmp(n, d) < 0 \/ d = <<1>> THEN [n |-> n, d |-> d]
    ELSE div_rem_unchecked_operands(n, d, leading_zeros(d[Len(d)]), s)

InitInPlace ==
    /\ pc = "ready"
    /\ op = "none"
    /\ build \in Builds
    /\ arg \in {[n |-> n, d |-> d] : n \in Magnitudes(MaxLimbs),
                                     d \in Magnitudes(MaxLimbs) \ {<<>>}}
    /\ out = [q |-> <<>>, r |-> <<>>, n |-> arg.n, d |-> arg.d]
    /\ step = 0

DivRemInPlaceReturn(s) ==
    /\ pc' = IF s.panic THEN "panic" ELSE "done"
    /\ out' = [q |-> s.q, r |-> s.r,
               n |-> div_rem_operands(arg.n, arg.d, s).n,
               d |-> div_rem_operands(arg.n, arg.d, s).d]
    /\ op' = "div_rem"
    /\ step' = step + 1
    /\ UNCHANGED <<build, arg>>

DivRemInPlace ==
    /\ pc = "ready"
    /\ DivRemInPlaceReturn(div_rem_to(arg.n, arg.d, build = "debug"))

NextInPlace == DivRemInPlace

SpecInPlace == InitInPlace /\ [][NextInPlace]_vars

\* C20: when div_rem returns, the dividend n and the non-zero divisor d hold
\* the values they had before the call: the normalization shift is undone.
C20_OperandsRestored ==
    (op = "div_rem" /\ pc = "done") => (out.n = arg.n /\ out.d = arg.d)

\* a division that returned after a normalization shift that lengthened n
C20_Witness ==
    /\ op = "div_rem"
    /\ pc = "done"
    /\ biguint_cmp(arg.n, arg.d) >= 0
    /\ arg.d # <<1>>
    /\ leading_zeros(arg.d[Len(arg.d)]) > 0
    /\ Len(shl_assign(arg.n, leading_zeros(arg.d[Len(arg.d)]))) > Len(arg.n)
    /\ out.n = arg.n
    /\ out.d = arg.d

\* ---------------------------------------------------------------------------
\* SpecRadix: a machine integer is converted, rendered in a radix and parsed
\* back.  The integers are those of one and of two limbs (u64 and u128,
\* i64 and i128); the radix fits a limb, as a u32 does.
\* ---------------------------------------------------------------------------

MachineInts == (0 - ((Base * Base) \div 2)) .. (Base * Base - 1)

\* util::digit_to_ascii; "?" stands for its panic
digit_to_ascii(d, uppercase) ==
    IF d <= 9 THEN DigitChars[d + 1]
    ELSE IF d <= 35 THEN (IF uppercase THEN UpperChars[d - 9] ELSE LowerChars[d - 9])
    ELSE "?"

\* the digits as pushed, least significant first
to_string_collect_unreversed(digits) == digits

\* digits.iter().rev().collect()
to_string_collect(digits) == Reverse(digits)

\* the while loop of BigUInt::to_string_radix; a quotient that does not
\* shrink n would keep it running past fuel
RECURSIVE to_string_loop(_, _, _, _, _, _)
RECURSIVE to_string_step(_, _, _, _, _, _)
to_string_loop(n, radix, uppercase, digits, fuel, dbg) ==
    IF n = <<>> THEN [s |-> to_string_collect(digits), panic |-> FALSE, hang |-> FALSE]
    ELSE IF fuel = 0 THEN [s |-> <<>>, panic |-> FALSE, hang |-> TRUE]
    ELSE to_string_step(div_rem_to(n, from_u64(radix), dbg), radix, uppercase, digits, fuel, dbg)

to_string_step(s, radix, uppercase, digits, fuel, dbg) ==
    IF s.panic \/ Len(s.r) > 1 \/ Val(s.r) > 35 THEN [s |-> <<>>, panic |-> TRUE, hang |-> FALSE]
    ELSE to_string_loop(s.q, radix, uppercase,
                        Append(digits, digit_to_ascii(Val(s.r), uppercase)), fuel - 1, dbg)

\* BigUInt::to_string_radix
biguint_to_string_radix(self, radix, uppercase, dbg) ==
    IF self = <<>> THEN [s |-> <<"0">>, panic |-> FALSE, hang |-> FALSE]
    ELSE to_string_loop(self, radix, uppercase, <<>>, LimbBits * Len(self) + 1, dbg)

bigint_to_string_prefix(is_negative, r) ==
    [s |-> (IF is_negative THEN <<"-">> ELSE <<>>) \o r.s, panic |-> r.panic, hang |-> r.hang]

\* BigInt::to_string_radix
bigint_to_string_radix(self, radix, uppercase, dbg) ==
    bigint_to_string_prefix(self.is_negative,
                            biguint_to_string_radix(self.magnitude, radix, uppercase, dbg))

\* SetVal<u64> / SetVal<u128> for BigUInt
biguint_from_uint(n) == truncate_leading_zeros(ToLimbs(n))

\* SetVal<i64> / SetVal<i128> for BigInt
bigint_from_int(n) == BigInt(n < 0, biguint_from_uint(Abs(n)))

\* the string of rendered, parsed as a BigUInt or as a BigInt
parse_rendered(rendered, signed, radix) ==
    IF rendered.panic \/ rendered.hang
    THEN [text |-> rendered.s, ok |-> FALSE, is_negative |-> FALSE, data |-> <<>>,
          panic |-> rendered.panic, hang |-> rendered.hang]
    ELSE IF signed
    THEN [text |-> rendered.s, hang |-> FALSE] @@ bigint_from_ascii_radix(rendered.s, radix)
    ELSE [text |-> rendered.s, hang |-> FALSE]
             @@ Parsed(biguint_from_ascii_radix(rendered.s, radix), FALSE)

InitRadix ==
    /\ pc = "ready"
    /\ op = "new"
    /\ build \in Builds
    /\ step = 0
    /\ arg \in {a \in [n : MachineInts, signed : BOOLEAN, radix : Radixes, uppercase : BOOLEAN] :
                   IF a.signed THEN a.n < (Base * Base) \div 2 ELSE a.n >= 0}
    /\ out = [text |-> <<>>, ok |-> FALSE, is_negative |-> FALSE, data |-> <<>>, err |-> "none",
              panic |-> FALSE, hang |-> FALSE]

RadixReturn(s) ==
    /\ op' = "parse_rendered"
    /\ pc' = IF s.panic THEN "panic" ELSE IF s.hang THEN "hang" ELSE "done"
    /\ out' = s
    /\ step' = step + 1
    /\ UNCHANGED <<arg, build>>

RenderParseUInt ==
    /\ pc = "ready"
    /\ ~arg.signed
    /\ RadixReturn(parse_rendered(
           bigint_to_string_prefix(FALSE,
               biguint_to_string_radix(biguint_from_uint(arg.n), arg.radix, arg.uppercase,
                                       build = "debug")),
           FALSE, arg.radix))

RenderParseInt ==
    /\ pc = "ready"
    /\ arg.signed
    /\ RadixReturn(parse_rendered(
           bigint_to_string_radix(bigint_from_int(arg.n), arg.radix, arg.uppercase,
                                  build = "debug"),
           TRUE, arg.radix))

NextRadix == RenderParseUInt \/ RenderParseInt

SpecRadix == InitRadix /\ [][NextRadix]_vars

\* every digit of every radix, in either case, is read back as itself
DigitsReadBack ==
    \A d \in 0 .. 35, uppercase \in BOOLEAN : parse_ascii_digit(digit_to_ascii(d, uppercase)) = d

\* C21: for every machine integer n converted to a BigUInt or a BigInt, every
\* radix and either digit case, parsing the rendering of n gives a value equal
\* to n.
C21_RenderParseRoundTrip ==
    /\ DigitsReadBack
    /\ op = "parse_rendered" =>
          /\ pc = "done"
          /\ out.ok
          /\ BigInt(out.is_negative, out.data) = bigint_from_int(arg.n)

\* a negative two-limb integer rendered with a sign and several digits
C21_Witness ==
    /\ op = "parse_rendered"
    /\ pc = "done"
    /\ arg.signed
    /\ arg.n < 0 - Base
    /\ Len(out.text) > 3
    /\ out.text[1] = "-"
    /\ out.ok
    /\ bigint_value(BigInt(out.is_negative, out.data)) = arg.n

\* ---------------------------------------------------------------------------
\* SpecReduce: one Rational::reduce on the Rational n / d.
\* ---------------------------------------------------------------------------

\* self.n = &mut self.n / &mut BigInt::from(gcd); self.d = &mut self.d / &mut gcd,
\* qn and qd being what the two divisions did
rational_reduce_assign(qn, qd) ==
    [n |-> qn.q, d |-> qd.q, panic |-> qn.panic \/ qd.panic, hang |-> FALSE]

\* the two divisions of reduce, g being what gcd did
rational_reduce_divide(n, d, g, dbg) ==
    IF g.panic \/ g.hang THEN [n |-> n, d |-> d, panic |-> g.panic, hang |-> g.hang]
    ELSE rational_reduce_assign(bigint_div_rem_to(n, BigInt(FALSE, g.data), dbg),
                                div_rem_to(d, g.data, dbg))

\* Rational::reduce
rational_reduce(n, d, dbg) == rational_reduce_divide(n, d, gcd(n.magnitude, d, dbg), dbg)

InitReduce ==
    /\ pc = "ready"
    /\ op = "new"
    /\ build \in Builds
    /\ step = 0
    /\ arg \in [n : CanonicalInts(MaxLimbs), d : Magnitudes(MaxLimbs) \ {<<>>}]
    /\ out = [n |-> arg.n, d |-> arg.d, panic |-> FALSE, hang |-> FALSE]

Reduce ==
    /\ pc = "ready"
    /\ op' = "reduce"
    /\ out' = rational_reduce(arg.n, arg.d, build = "debug")
    /\ pc' = IF out'.panic THEN "panic" ELSE IF out'.hang THEN "hang" ELSE "done"
    /\ step' = step + 1
    /\ UNCHANGED <<arg, build>>

NextReduce == Reduce

SpecReduce == InitReduce /\ [][NextReduce]_vars

\* the greatest common divisor of two naturals
RECURSIVE Gcd(_, _)
Gcd(a, b) == IF b = 0 THEN a ELSE Gcd(b, a % b)

ReducedToLowestTerms ==
    /\ pc = "done"
    /\ out.d # <<>>
    /\ bigint_value(out.n) * Val(arg.d) = bigint_value(arg.n) * Val(out.d)
    /\ Gcd(Abs(bigint_value(out.n)), Val(out.d)) = 1

\* C22: for every Rational r, zero and negative numerators included, after
\* r.reduce() the value of r is unchanged, the denominator is not zero and
\* gcd(|numerator|, denominator) = 1.
C22_Reduce == op = "reduce" => ReducedToLowestTerms

\* The same when numerator and denominator have one limb each
C22_ReduceSingleLimb ==
    (op = "reduce" /\ Len(arg.n.magnitude) <= 1 /\ Len(arg.d) = 1) => ReducedToLowestTerms

\* ---------------------------------------------------------------------------
\* SpecCmp: one comparison of the Rational n / d with the Rational on / od or
\* with the machine integer i (signed or unsigned, of one limb).
\* ---------------------------------------------------------------------------

\* Ord for BigInt
bigint_cmp(self, other) ==
    IF self.is_negative /\ ~other.is_negative THEN -1
    ELSE IF ~self.is_negative /\ other.is_negative THEN 1
    ELSE IF self.is_negative /\ other.is_negative
    THEN 0 - biguint_cmp(self.magnitude, other.magnitude)
    ELSE biguint_cmp(self.magnitude, other.magnitude)

\* BigInt::mul_to_u
bigint_mul_to_u(lhs, rhs) ==
    IF bigint_is_zero(lhs) \/ rhs = <<>> THEN BIGINT_ZERO
    ELSE BigInt(lhs.is_negative, mul_to(lhs.magnitude, rhs))

\* PartialEq for Rational
rational_eq(n, d, on, od) ==
    [v |-> bigint_mul_to_u(n, od) = bigint_mul_to_u(on, d), panic |-> FALSE]

\* Ord for Rational
rational_cmp(n, d, on, od) ==
    [v |-> bigint_cmp(bigint_mul_to_u(n, od), bigint_mul_to_u(on, d)), panic |-> FALSE]

\* &BigUInt * $t: a BigUInt, or the panic of expect for a negative $t
biguint_mul_prim(self, rhs) ==
    IF rhs < 0 THEN [data |-> <<>>, panic |-> TRUE]
    ELSE [data |-> mul_to(self, from_u64(rhs)), panic |-> FALSE]

\* PartialEq<BigUInt> for BigInt
bigint_eq_u(self, other) == ~self.is_negative /\ self.magnitude = other

\* PartialOrd<BigUInt> for BigInt
bigint_cmp_u(self, other) ==
    IF self.is_negative THEN -1 ELSE biguint_cmp(self.magnitude, other)

\* PartialOrd<BigInt> for BigUInt
biguint_cmp_i(self, other) ==
    IF other.is_negative THEN 1 ELSE biguint_cmp(self, other.magnitude)

\* PartialEq<$t> for Rational and PartialEq<Rational> for $t, p being d * i
rational_eq_prim(n, p) ==
    [v |-> ~p.panic /\ bigint_eq_u(n, p.data), panic |-> p.panic]

\* PartialOrd<$t> for Rational, p being d * i
rational_cmp_prim(n, p) ==
    [v |-> IF p.panic THEN 0 ELSE bigint_cmp_u(n, p.data), panic |-> p.panic]

\* PartialOrd<Rational> for $t, p being d * i
prim_cmp_rational(n, p) ==
    [v |-> IF p.panic THEN 0 ELSE biguint_cmp_i(p.data, n), panic |-> p.panic]

\* the machine integers of one limb, unsigned and signed
PrimsCmp == (0 - (Base \div 2)) .. (Base - 1)

InitCmp ==
    /\ pc = "ready"
    /\ op = "new"
    /\ build \in Builds
    /\ step = 0
    /\ arg \in [n : CanonicalInts(1), d : Magnitudes(1) \ {<<>>},
                on : CanonicalInts(1), od : Magnitudes(1) \ {<<>>}, i : PrimsCmp]
    /\ out = [v |-> FALSE, panic |-> FALSE]

RationalEq ==
    pc = "ready" /\ Return("eq", rational_eq(arg.n, arg.d, arg.on, arg.od))

RationalCmp ==
    pc = "ready" /\ Return("cmp", rational_cmp(arg.n, arg.d, arg.on, arg.od))

RationalEqPrim ==
    pc = "ready" /\ Return("eq_prim", rational_eq_prim(arg.n, biguint_mul_prim(arg.d, arg.i)))

RationalCmpPrim ==
    pc = "ready" /\ Return("cmp_prim", rational_cmp_prim(arg.n, biguint_mul_prim(arg.d, arg.i)))

PrimCmpRational ==
    pc = "ready" /\ Return("prim_cmp", prim_cmp_rational(arg.n, biguint_mul_prim(arg.d, arg.i)))

NextCmp ==
    \/ RationalEq
    \/ RationalCmp
    \/ RationalEqPrim
    \/ RationalCmpPrim
    \/ PrimCmpRational

SpecCmp == InitCmp /\ [][NextCmp]_vars

\* the sign of a - b
Sign(a, b) == IF a < b THEN -1 ELSE IF a > b THEN 1 ELSE 0

\* n / d against on / od and against i, on integers
ComparedAsValues ==
    /\ pc = "done"
    /\ op = "eq" =>
          (out.v <=> bigint_value(arg.n) * Val(arg.od) = bigint_value(arg.on) * Val(arg.d))
    /\ op = "cmp" =>
          out.v = Sign(bigint_value(arg.n) * Val(arg.od), bigint_value(arg.on) * Val(arg.d))
    /\ op = "eq_prim" => (out.v <=> bigint_value(arg.n) = arg.i * Val(arg.d))
    /\ op = "cmp_prim" => out.v = Sign(bigint_value(arg.n), arg.i * Val(arg.d))
    /\ op = "prim_cmp" => out.v = Sign(arg.i * Val(arg.d), bigint_value(arg.n))

\* C23: equality and ordering of a Rational against another Rational, reduced
\* or not, and against a machine integer, signed or unsigned, positive or
\* negative, complete without a panic and agree with the mathematical values.
C23_Comparisons == op # "new" => ComparedAsValues

\* The same for every comparison but those with a negative machine integer
C23_ComparisonsNonNegative ==
    (op # "new" /\ (op \in {"eq", "cmp"} \/ arg.i >= 0)) => ComparedAsValues

\* ---------------------------------------------------------------------------
\* SpecLex: eval collects the tokens of an input line, one call of next at a time
\* ---------------------------------------------------------------------------

MaxLex == 3

MaxTokens == 4

LexChars == {" ", "+", "(", "1", ".", "a", "#"}

is_whitespace(c) == c = " "

is_digit(c) == IndexIn(DigitChars, c) > 0

is_alphabetic(c) == IndexIn(LowerChars, c) > 0 \/ IndexIn(UpperChars, c) > 0

is_alphanumeric(c) == is_alphabetic(c) \/ is_digit(c)

Token(kind, text) == [kind |-> kind, text |-> text]

\* the tokens of one character
Punctuation(c) ==
    CASE c = "+" -> "Plus"
      [] c = "-" -> "Minus"
      [] c = "*" -> "Multiply"
      [] c = "/" -> "Divide"
      [] c = "(" -> "LParen"
      [] c = ")" -> "RParen"
      [] c = "," -> "Comma"
      [] OTHER -> "none"

\* the loop at the head of next: self.0 with its leading whitespace dropped
RECURSIVE lexer_skip_whitespace(_)
lexer_skip_whitespace(s) ==
    IF s # <<>> /\ is_whitespace(s[1]) THEN lexer_skip_whitespace(Tail(s)) ELSE s

\* the char_indices loops: the index i (from 0) of the first character of s
\* that is not of the token, Len(s) when the iterator runs out
RECURSIVE lexer_number_end(_, _)
lexer_number_end(s, i) ==
    IF i < Len(s) /\ (is_digit(s[i + 1]) \/ s[i + 1] = ".") THEN lexer_number_end(s, i + 1) ELSE i

RECURSIVE lexer_identifier_end(_, _)
lexer_identifier_end(s, i) ==
    IF i < Len(s) /\ is_alphanumeric(s[i + 1]) THEN lexer_identifier_end(s, i + 1) ELSE i

lexer_split(kind, s, i) ==
    [some |-> TRUE, token |-> Token(kind, SubSeq(s, 1, i)), rest |-> SubSeq(s, i + 1, Len(s))]

\* next once the whitespace is gone: s is self.0, c its first character
lexer_next_token_kept(s) ==
    IF s = <<>> THEN [some |-> FALSE, token |-> Token("none", <<>>), rest |-> s]
    ELSE IF Punctuation(s[1]) # "none"
    THEN [some |-> TRUE, token |-> Token(Punctuation(s[1]), <<>>), rest |-> Tail(s)]
    ELSE IF is_digit(s[1]) \/ s[1] = "." THEN lexer_split("Number", s, lexer_number_end(s, 0))
    ELSE IF is_alphabetic(s[1]) THEN lexer_split("Identifier", s, lexer_identifier_end(s, 0))
    ELSE [some |-> TRUE, token |-> Token("Error", <<>>), rest |-> s]

\* Iterator::next for Lexer: the Option returned and self.0 after the call
lexer_next(self) == lexer_next_token_kept(lexer_skip_whitespace(self))

InitLex ==
    /\ pc = "ready"
    /\ op = "new"
    /\ build \in Builds
    /\ step = 0
    /\ arg \in [input : SeqsUpTo(LexChars, MaxLex)]
    /\ out = [before |-> arg.input, lexer |-> arg.input, some |-> TRUE, tokens |-> <<>>]

\* one turn of Lexer(input).collect::<Vec<_>>() in eval: a call of next, and
\* the push of the token it returned
Collected(before, r) ==
    /\ op' = "next"
    /\ pc' = IF r.some THEN "collecting" ELSE "done"
    /\ out' = [before |-> before, lexer |-> r.rest, some |-> r.some,
               tokens |-> IF r.some THEN Append(out.tokens, r.token) ELSE out.tokens]
    /\ step' = step + 1
    /\ UNCHANGED <<arg, build>>

LexerNext ==
    /\ pc \in {"ready", "collecting"}
    /\ Len(out.tokens) < MaxTokens
    /\ Collected(out.lexer, lexer_next(out.lexer))

NextLex == LexerNext

SpecLex == InitLex /\ [][NextLex]_vars

ConsumedOrEnded == ~out.some \/ Len(out.lexer) < Len(out.before)

InTokenAlphabet(s) ==
    \A i \in 1 .. Len(s) :
        is_whitespace(s[i]) \/ Punctuation(s[i]) # "none" \/ is_alphanumeric(s[i]) \/ s[i] = "."

\* C25: for every input string, characters outside the token alphabet
\* included, each call of next either consumes at least one character of the
\* input or returns end-of-input, so the collected token sequence is finite
\* (no longer than the input).
C25_NextConsumes == op = "next" => (ConsumedOrEnded /\ Len(out.tokens) <= Len(arg.input))

\* The same for the inputs made of characters of the token alphabet
C25_NextConsumesInAlphabet ==
    (op = "next" /\ InTokenAlphabet(arg.input)) =>
        (ConsumedOrEnded /\ Len(out.tokens) <= Len(arg.input))

\* ---------------------------------------------------------------------------
\* SpecDigits: div_rem_to_unchecked of n by d, one quotient digit at a time
\* ---------------------------------------------------------------------------

MaxNumerator == 4

InitDigits ==
    /\ pc = "ready"
    /\ op = "new"
    /\ build \in Builds
    /\ step = 0
    /\ arg \in {a \in [n : Magnitudes(MaxNumerator), d : Magnitudes(MaxLenU) \ {<<>>, <<1>>}] :
                   biguint_cmp(a.n, a.d) >= 0}
    /\ out = [n |-> arg.n, d |-> arg.d, k |-> 0, n_inter |-> <<>>, q |-> <<>>, r |-> <<>>,
              n_call |-> <<>>, normalization_bitshift |-> 0]

\* div_rem_to_unchecked up to the loop of div_rem_to_normalized: n and d
\* shifted, n_inter the top len(d) limbs of n
Normalized(n, d, normalization_bitshift) ==
    [n |-> n, d |-> d, k |-> Len(n) - Len(d), n_inter |-> shr_digits(n, Len(n) - Len(d)),
     q |-> <<>>, r |-> <<>>, n_call |-> <<>>, normalization_bitshift |-> normalization_bitshift]

Normalize ==
    /\ pc = "ready"
    /\ op' = "normalize"
    /\ pc' = "loop"
    /\ out' = Normalized(shl_assign(arg.n, leading_zeros(arg.d[Len(arg.d)])),
                         shl_assign(arg.d, leading_zeros(arg.d[Len(arg.d)])),
                         leading_zeros(arg.d[Len(arg.d)]))
    /\ step' = step + 1
    /\ UNCHANGED <<arg, build>>

\* an iteration that writes a zero into q and brings down one more digit
LoopContinue ==
    /\ pc = "loop"
    /\ out.k > 0
    /\ Len(out.n_inter) < Len(out.d)
    /\ op' = "continue"
    /\ out' = [out EXCEPT !.n_inter = <<out.n[out.k]>> \o out.n_inter,
                          !.q = Append(out.q, 0),
                          !.k = out.k - 1]
    /\ step' = step + 1
    /\ UNCHANGED <<pc, arg, build>>

\* what follows a call of div_n_plus_1_digits_normalized(n_call, d, r) that
\* returned s: in the loop the digit is pushed and the next one brought down,
\* after the loop q is reversed and truncated
DigitReturned(n_call, s) ==
    /\ op' = "digit"
    /\ pc' = IF s.panic THEN "panic" ELSE IF out.k > 0 THEN "loop" ELSE "shift"
    /\ out' = IF s.panic THEN [out EXCEPT !.n_call = n_call]
              ELSE IF out.k > 0
              THEN [out EXCEPT !.n_call = n_call,
                               !.r = s.r,
                               !.n_inter = <<out.n[out.k]>> \o s.r,
                               !.q = Append(out.q, s.q),
                               !.k = out.k - 1]
              ELSE [out EXCEPT !.n_call = n_call,
                               !.r = s.r,
                               !.q = truncate_leading_zeros(Reverse(Append(out.q, s.q)))]
    /\ step' = step + 1
    /\ UNCHANGED <<arg, build>>

Digit(n_call) ==
    DigitReturned(n_call, div_n_plus_1_digits_normalized(n_call, out.d, build = "debug"))

LoopDigit ==
    /\ pc = "loop"
    /\ out.k > 0
    /\ Len(out.n_inter) >= Len(out.d)
    /\ Digit(pad_n_inter(out.n_inter, out.d))

LastDigit ==
    /\ pc = "loop"
    /\ out.k = 0
    /\ Digit(pad_n_inter(out.n_inter, out.d))

\* the end of div_rem_to_unchecked: r, n and d shifted back
ShiftBack ==
    /\ pc = "shift"
    /\ op' = "shift_back"
    /\ pc' = "done"
    /\ out' = [out EXCEPT !.r = shr_assign(out.r, out.normalization_bitshift),
                          !.n = shr_assign(out.n, out.normalization_bitshift),
                          !.d = shr_assign(out.d, out.normalization_bitshift)]
    /\ step' = step + 1
    /\ UNCHANGED <<arg, build>>

NextDigits == Normalize \/ LoopContinue \/ LoopDigit \/ LastDigit \/ ShiftBack

SpecDigits == InitDigits /\ [][NextDigits]_vars

IsNormalized(d) == d # <<>> /\ d[Len(d)] >= Base \div 2

\* C26: on every invocation of the per-digit quotient step during div_rem, for
\* every dividend and non-zero divisor, the divisor's top limb has its high
\* bit set and the working numerator is exactly one limb longer than the
\* divisor, so that neither assertion fires.
C26_DigitPreconditions ==
    op = "digit" => (IsNormalized(out.d) /\ Len(out.n_call) = Len(out.d) + 1)

\* The same for a single-limb divisor
C26_DigitPreconditionsSingleLimb ==
    (op = "digit" /\ Len(arg.d) = 1) => (IsNormalized(out.d) /\ Len(out.n_call) = Len(out.d) + 1)

\* The divisor handed to the per-digit step is normalized on every invocation
C26_DivisorNormalized == op = "digit" => IsNormalized(out.d)

\* ---------------------------------------------------------------------------
\* SpecStep: the per-digit step on a numerator and a divisor that meet its
\* preconditions
\* ---------------------------------------------------------------------------

\* the normalized divisors of at most MaxLenU limbs
NormalizedDivisors == {d \in Magnitudes(MaxLenU) : IsNormalized(d)}

InitStep ==
    /\ pc = "ready"
    /\ op = "new"
    /\ build \in Builds
    /\ step = 0
    /\ \E d \in NormalizedDivisors :
          arg \in {a \in [n : SeqsOfLen(Limbs, Len(d) + 1), d : {d}] : Val(a.n) < Val(d) * Base}
    /\ out = [q |-> 0, r |-> <<>>, panic |-> FALSE]

DigitStep ==
    /\ pc = "ready"
    /\ Return("div_n_plus_1_digits_normalized",
              div_n_plus_1_digits_normalized(arg.n, arg.d, build = "debug"))

NextStep == DigitStep

SpecStep == InitStep /\ [][NextStep]_vars

ExactDigit ==
    /\ pc = "done"
    /\ out.q = Val(arg.n) \div Val(arg.d)
    /\ Val(out.r) = Val(arg.n) % Val(arg.d)

\* C30: given a normalized divisor d and a numerator n held in exactly
\* len(d) + 1 limbs with n < d * 2^64, the per-digit step returns the exact
\* digit q = floor(n / d) and the remainder n - q * d < d.
C30_ExactDigit == op = "div_n_plus_1_digits_normalized" => ExactDigit

\* The same for a single-limb divisor
C30_ExactDigitSingleLimb ==
    (op = "div_n_plus_1_digits_normalized" /\ Len(arg.d) = 1) => ExactDigit

\* ---------------------------------------------------------------------------
\* SpecSub: an unsigned machine integer u and a magnitude b are subtracted,
\* in either order
\* ---------------------------------------------------------------------------

\* Sub<$t> for BigUInt, $t unsigned: self - &BigUInt::from(rhs)
biguint_sub_prim(self, rhs) == sub_assign(self, biguint_from_uint(rhs))

\* Sub<BigUInt> for $t, $t unsigned: rhs - &BigUInt::from(self)
prim_sub_biguint(self, rhs) == sub_assign(rhs, biguint_from_uint(self))

InitSub ==
    /\ pc = "ready"
    /\ op = "new"
    /\ build \in Builds
    /\ step = 0
    /\ arg \in [u : 0 .. (Base * Base - 1), b : Magnitudes(MaxLenU)]
    /\ out = [data |-> <<>>, panic |-> FALSE]

PrimSubBigUInt == pc = "ready" /\ Return("prim_sub", prim_sub_biguint(arg.u, arg.b))

BigUIntSubPrim == pc = "ready" /\ Return("sub_prim", biguint_sub_prim(arg.b, arg.u))

NextSub == PrimSubBigUInt \/ BigUIntSubPrim

SpecSub == InitSub /\ [][NextSub]_vars

\* the operation returned the magnitude of value minuend - subtrahend, or
\* panicked when that is negative
Subtracted(minuend, subtrahend) ==
    IF subtrahend <= minuend
    THEN pc = "done" /\ out.data = ToLimbs(minuend - subtrahend)
    ELSE pc = "panic"

\* C29: for every unsigned machine integer u and every magnitude b, u - b with
\* the primitive on the left is the magnitude of value u - b when b <= u and a
\* panic when b > u.
C29_PrimMinusBigUInt == op = "prim_sub" => Subtracted(arg.u, Val(arg.b))

\* With the primitive on the right, b - u is the magnitude of value b - u when
\* u <= b and a panic when u > b; with it on the left the same holds when
\* u = b.
C29_BigUIntMinusPrim ==
    /\ op = "sub_prim" => Subtracted(Val(arg.b), arg.u)
    /\ (op = "prim_sub" /\ arg.u = Val(arg.b)) => Subtracted(arg.u, Val(arg.b))

\* ---------------------------------------------------------------------------
\* SpecLn: x.ln(tol) of a Real x, then one eval(prec) of the logarithm.  The
\* Real x has the value arg.x in units of 2^(-GridBits) and answers eval(p)
\* with a grid point within 2^(-p) of its value.
\* ---------------------------------------------------------------------------

ValuesLn == -1 .. (Pow2(GridBits) + 2)

TolerancesLn == 0 .. 2

\* the 64 of i64::max(actual_prec, 64): one limb of bits
MinEvalBits == LimbBits

\* Ord for BigFloat
bigfloat_cmp(self, other) ==
    IF ~self.m.is_negative /\ ~other.m.is_negative THEN cmp_abs(self, other)
    ELSE IF ~self.m.is_negative THEN 1
    ELSE IF ~other.m.is_negative THEN -1
    ELSE 0 - cmp_abs_non_zero(self, other)

\* Real::ln: Err(self), or Ok with the probe x_round the test was made on
real_ln(x_round, tau) ==
    [err |-> ~tau.panic /\ bigfloat_cmp(x_round, tau.f) # 1, panic |-> tau.panic,
     x_round |-> x_round, x |-> BIGFLOAT_ZERO, prec |-> 0, entered |-> FALSE]

\* the precision the logarithm's closure asks of x
x_prec(prec, tol) == Max(prec + 1, MinEvalBits) + tol

\* the head of BigFloat::ln: the two panics
bigfloat_ln_panics(self) == self.m.is_negative \/ bigfloat_is_zero(self)

InitLn ==
    /\ pc = "ready"
    /\ op = "new"
    /\ build \in Builds
    /\ step = 0
    /\ arg \in [x : ValuesLn, tol : TolerancesLn]
    /\ out = real_ln(BIGFLOAT_ZERO, [f |-> BIGFLOAT_ONE, panic |-> FALSE])

RealLnReturn(s) ==
    /\ op' = "ln"
    /\ pc' = IF s.panic THEN "panic" ELSE IF s.err THEN "err" ELSE "ok"
    /\ out' = s
    /\ step' = step + 1
    /\ UNCHANGED <<arg, build>>

RealLn ==
    /\ pc = "ready"
    /\ \E x_round \in Evals(arg.x, arg.tol) :
          RealLnReturn(real_ln(x_round, bigfloat_shr_assign(BIGFLOAT_ONE, arg.tol)))

\* the closure of the logarithm up to the head of x.ln(actual_prec)
LnEval ==
    /\ pc = "ok"
    /\ \E prec \in (0 - MaxPrec) .. MaxPrec :
          \E x \in Evals(arg.x, x_prec(prec, arg.tol)) :
              /\ SameAnswer(x_prec(prec, arg.tol), x, arg.tol, out.x_round)
              /\ op' = "eval"
              /\ pc' = IF bigfloat_ln_panics(x) THEN "panic" ELSE "entered"
              /\ out' = [out EXCEPT !.x = x, !.prec = prec, !.entered = ~bigfloat_ln_panics(x)]
              /\ step' = step + 1
              /\ UNCHANGED <<arg, build>>

NextLn == RealLn \/ LnEval

SpecLn == InitLn /\ [][NextLn]_vars

\* C27: whenever x.ln(tol) returns Ok(l) for a Real x within the precision
\* contract, the approximation of x that l.eval(p) hands to the BigFloat
\* logarithm is strictly positive for every p, so that the evaluation does
\* not panic.
C27_LnArgumentPositive == op = "eval" => (pc # "panic" /\ GridValue(out.x) > 0)

\* The same when x is at least 2^(-(MinEvalBits + tol)), the error the
\* closure allows on its approximation of x
C27_LnArgumentPositiveNotTiny ==
    (op = "eval" /\ arg.x >= Pow2(GridBits - (MinEvalBits + arg.tol)))
        => (pc # "panic" /\ GridValue(out.x) > 0)

\* ---------------------------------------------------------------------------
\* SpecLiteral: Real::from_string_radix(s, radix), then one eval(prec) of the
\* Real it accepted
\* ---------------------------------------------------------------------------

LiteralChars == {"0", "1", "z", "+", "-", "."}

RadixesLiteral == {2}

\* char::is_digit(radix)
char_is_digit(c, radix) == parse_ascii_digit(c) >= 0 /\ parse_ascii_digit(c) < radix

\* the loop over the characters after the first: s from position i on, with
\* is_point_encountered
RECURSIVE literal_rest_valid(_, _, _, _)
literal_rest_valid(s, i, radix, is_point_encountered) ==
    IF i > Len(s) THEN TRUE
    ELSE IF char_is_digit(s[i], radix) THEN literal_rest_valid(s, i + 1, radix, is_point_encountered)
    ELSE IF s[i] = "." /\ ~is_point_encountered THEN literal_rest_valid(s, i + 1, radix, TRUE)
    ELSE FALSE

\* Real::from_string_radix: "ok" for Ok(Real), otherwise the ParseFloatError
real_from_string_radix(s, radix) ==
    IF s = <<>> THEN "Empty"
    ELSE IF ~char_is_digit(s[1], radix) /\ s[1] # "-" /\ s[1] # "+" THEN "InvalidDigit"
    ELSE IF literal_rest_valid(s, 2, radix, FALSE) THEN "ok"
    ELSE "InvalidDigit"

\* src.split_once(|c| *c == b'.').unwrap_or((src, b"0"))
split_once_point(src) ==
    IF \E i \in 1 .. Len(src) : src[i] = "."
    THEN LET i == CHOOSE j \in 1 .. Len(src) : src[j] = "." /\ \A k \in 1 .. (j - 1) : src[k] # "."
         IN  [whole |-> SubSeq(src, 1, i - 1), fract |-> SubSeq(src, i + 1, Len(src))]
    ELSE [whole |-> src, fract |-> <<"0">>]

\* BigFloat::from of a BigInt or of a BigUInt with a sign set
bigfloat_from_bigint(src) ==
    IF src.magnitude = <<>> THEN BIGFLOAT_ZERO ELSE from_mantissa_exponent(src, 0).f

\* fract_f.div(&fract_d, prec + 16), added to whole_f and rounded
literal_sum(whole_f, fract_final, prec, dbg) ==
    IF fract_final.panic \/ fract_final.hang THEN fract_final
    ELSE Finishes(round_after(add_with_precision(whole_f, fract_final.f, prec + 16, dbg), prec, dbg))

\* BigFloat::from_ascii_radix_with_precision after its two parses: whole_i and
\* fract_i are what BigInt::from_ascii_radix and BigUInt::from_ascii_radix
\* returned, err the Err that `?` hands back
literal_value(whole_i, fract_i, is_negative, fract_len, radix, prec, dbg) ==
    IF whole_i.panic THEN [f |-> BIGFLOAT_ZERO, panic |-> TRUE, hang |-> FALSE, err |-> FALSE]
    ELSE IF ~whole_i.ok \/ ~fract_i.ok
    THEN [f |-> BIGFLOAT_ZERO, panic |-> FALSE, hang |-> FALSE, err |-> TRUE]
    ELSE IF fract_i.data = <<>>
    THEN [f |-> bigfloat_from_bigint(BigInt(whole_i.is_negative, whole_i.data)),
          panic |-> FALSE, hang |-> FALSE, err |-> FALSE]
    ELSE [err |-> FALSE] @@
         literal_sum(bigfloat_from_bigint(BigInt(whole_i.is_negative, whole_i.data)),
                     bigfloat_div(bigfloat_from_bigint(BigInt(is_negative, fract_i.data)),
                                  bigfloat_from_bigint(BigInt(FALSE, pow(biguint_from_uint(radix), fract_len))),
                                  prec + 16, dbg),
                     prec, dbg)

literal_parts(parts, radix, prec, dbg) ==
    literal_value(bigint_from_ascii_radix(parts.whole, radix),
                  biguint_from_ascii_radix(parts.fract, radix),
                  parts.whole # <<>> /\ parts.whole[1] = "-",
                  Len(parts.fract), radix, prec, dbg)

\* BigFloat::from_ascii_radix_with_precision
from_ascii_radix_with_precision(src, radix, prec, dbg) ==
    literal_parts(split_once_point(src), radix, prec, dbg)

InitLiteral ==
    /\ pc = "ready"
    /\ op = "new"
    /\ build \in Builds
    /\ step = 0
    /\ arg \in [s : SeqsUpTo(LiteralChars, MaxStr + 2), radix : RadixesLiteral]
    /\ out = [result |-> "none", f |-> BIGFLOAT_ZERO, prec |-> 0, panic |-> FALSE, hang |-> FALSE]

FromStringRadix ==
    /\ pc = "ready"
    /\ op' = "from_string_radix"
    /\ pc' = IF real_from_string_radix(arg.s, arg.radix) = "ok" THEN "ok" ELSE "err"
    /\ out' = [out EXCEPT !.result = real_from_string_radix(arg.s, arg.radix)]
    /\ step' = step + 1
    /\ UNCHANGED <<arg, build>>

\* the closure: from_str_radix_with_precision(&s, radix, prec).unwrap()
LiteralReturn(prec, r) ==
    /\ op' = "eval"
    /\ pc' = IF r.panic \/ r.err THEN "panic" ELSE IF r.hang THEN "hang" ELSE "done"
    /\ out' = [out EXCEPT !.f = r.f, !.prec = prec, !.panic = r.panic \/ r.err, !.hang = r.hang]
    /\ step' = step + 1
    /\ UNCHANGED <<arg, build>>

LiteralEval ==
    /\ pc = "ok"
    /\ \E prec \in (0 - MaxPrec) .. MaxPrec :
          LiteralReturn(prec, from_ascii_radix_with_precision(arg.s, arg.radix, prec, build = "debug"))

NextLiteral == FromStringRadix \/ LiteralEval

SpecLiteral == InitLiteral /\ [][NextLiteral]_vars

\* C28: Real::from_string_radix validates the whole literal up front: it
\* returns a parse error at once, or a Real whose evaluation at every
\* precision completes without a panic.
C28_AcceptedLiteralsEvaluate ==
    /\ op = "from_string_radix" => out.result \in {"ok", "Empty", "InvalidDigit"}
    /\ op = "eval" => pc = "done"

\* a literal whose integer part and fractional part, if it has one, each hold
\* a digit
HasDigitsInEachPart(s, radix) ==
    /\ \E i \in 1 .. Len(split_once_point(s).whole) : char_is_digit(split_once_point(s).whole[i], radix)
    /\ split_once_point(s).fract # <<>>

\* The same for the accepted literals with a digit in the integer part and
\* in the fractional part
C28_AcceptedLiteralsEvaluateWithDigits ==
    (op = "eval" /\ HasDigitsInEachPart(arg.s, arg.radix)) => pc = "done"

====
